---- MODULE Spec2Model ----
(***************************************************************************)
(* Model of the chess engine core: ChessBoard (board.py), MoveGenerator    *)
(* (move_generator.py), EvaluationEngine (evaluation.py), MinimaxEngine    *)
(* (minimax.py) and TranspositionTable (transposition.py).                 *)
(*                                                                         *)
(* Squares are addressed as in the code: a square is <<file, rank>> with   *)
(* file, rank in 0..7 and the grid is indexed board[rank][file]; rank 0 is *)
(* the eighth rank.  Python's None is "NONE" where a piece type or colour   *)
(* is expected, NoSquare where a (file, rank) tuple is expected and NoMove *)
(* where a Move is expected.                                               *)
(***************************************************************************)
EXTENDS Integers, Sequences, FiniteSets, TLC

VARIABLES
    cb,        \* the ChessBoard object (all of its fields)
    op,        \* the last call made on it: "init", "make_move", "undo_move"
    arg,       \* the Move passed to the last make_move
    ret,       \* what the last call returned
    pre,       \* the ChessBoard as it was when the last call was made
    applied,   \* number of accepted moves not yet undone
    eng,       \* the MinimaxEngine object (search statistics, tables)
    stack,     \* the call stack of the running search
    srch,      \* the locals of MinimaxEngine.search
    tt         \* the TranspositionTable object of transposition.py

vars == <<cb, op, arg, ret, pre, applied, eng, stack, srch, tt>>

(***************************************************************************)
(* Bounds of the model.                                                    *)
(***************************************************************************)
MaxHistory == 1      \* accepted moves kept on the history stack
MaxLeak == 1         \* snapshots left behind by calls that raised inside make_move
MaxPly == 2          \* plies played from a starting position (SpecPos)
MaxDepth == 2        \* largest depth passed to MinimaxEngine.search (SpecSearch)
MaxNextDepth == 1    \* largest depth of the search after the caller's move (SpecSearch)
TableSize == 1       \* slots of the TranspositionTable (SpecTT)
MaxKey == 1          \* hash keys 0..MaxKey of the positions stored and probed (SpecTT)
MaxTTDepth == 2      \* largest depth stored or probed (SpecTT)
MaxAge == 1          \* calls of increment_age per run (SpecTT)
MaxProbes == 1       \* calls of probe per run (SpecTT)

NONE == "NONE"
NoSquare == <<>>
WHITE == "WHITE"
BLACK == "BLACK"
PAWN == "PAWN"
KNIGHT == "KNIGHT"
BISHOP == "BISHOP"
ROOK == "ROOK"
QUEEN == "QUEEN"
KING == "KING"

Color == {WHITE, BLACK}
PieceType == {PAWN, KNIGHT, BISHOP, ROOK, QUEEN, KING}
Idx == 0..7

Opposite(color) == IF color = WHITE THEN BLACK ELSE WHITE

Abs(x) == IF x < 0 THEN -x ELSE x
Min(x, y) == IF x < y THEN x ELSE y
Max(x, y) == IF x > y THEN x ELSE y

\* Square(): an empty square; Square(piece_type, color): an occupied one.
EmptySquare == [piece_type |-> NONE, color |-> NONE]
Square(piece_type, color) == [piece_type |-> piece_type, color |-> color]
empty(square) == square.piece_type = NONE

\* Move(...): the value object of board.py.
Move(from_square, to_square, piece_type, color, promotion, is_castling, is_en_passant, is_capture) ==
    [from_square |-> from_square, to_square |-> to_square,
     piece_type |-> piece_type, color |-> color, promotion |-> promotion,
     is_castling |-> is_castling, is_en_passant |-> is_en_passant,
     is_capture |-> is_capture]

\* MoveGenerator._create_move: same fields, keyword order of the generator.
_create_move(from_square, to_square, piece_type, color, promotion, is_capture, is_en_passant, is_castling) ==
    Move(from_square, to_square, piece_type, color, promotion,
         is_castling, is_en_passant, is_capture)

_is_valid_square(square) ==
    0 <= square[1] /\ square[1] < 8 /\ 0 <= square[2] /\ square[2] < 8

\* get_piece is only ever called with valid squares by the code modelled.
get_piece(board, square) == board[square[2]][square[1]]

\* board[rank][file] := v
SetSq(board, rank, file, v) ==
    [board EXCEPT ![rank] = [@ EXCEPT ![file] = v]]

(***************************************************************************)
(* Attack detection (board.py 302-336, 500-580).                           *)
(***************************************************************************)
_is_diagonal_clear(board, from_pos, to_pos) ==
    LET from_file == from_pos[1]
        from_rank == from_pos[2]
        to_file == to_pos[1]
        to_rank == to_pos[2]
        df == Abs(to_file - from_file)
        dr == Abs(to_rank - from_rank)
        file_step == IF to_file > from_file THEN 1 ELSE -1
        rank_step == IF to_rank > from_rank THEN 1 ELSE -1
    IN  /\ df = dr
        /\ \A k \in 1..(df - 1) :
              empty(board[from_rank + k * rank_step][from_file + k * file_step])

_is_straight_clear(board, from_pos, to_pos) ==
    LET from_file == from_pos[1]
        from_rank == from_pos[2]
        to_file == to_pos[1]
        to_rank == to_pos[2]
    IN  /\ ~(from_file # to_file /\ from_rank # to_rank)
        /\ IF from_file = to_file
           THEN \A rank \in (Min(from_rank, to_rank) + 1)..(Max(from_rank, to_rank) - 1) :
                    empty(board[rank][from_file])
           ELSE \A file \in (Min(from_file, to_file) + 1)..(Max(from_file, to_file) - 1) :
                    empty(board[from_rank][file])

_can_piece_attack(board, piece_type, from_pos, to_pos) ==
    LET from_file == from_pos[1]
        from_rank == from_pos[2]
        to_file == to_pos[1]
        to_rank == to_pos[2]
        df == Abs(from_file - to_file)
        dr == Abs(from_rank - to_rank)
    IN  CASE piece_type = PAWN ->
                IF board[from_rank][from_file].color = WHITE
                THEN from_rank - 1 = to_rank /\ df = 1
                ELSE from_rank + 1 = to_rank /\ df = 1
          [] piece_type = KNIGHT -> (df = 2 /\ dr = 1) \/ (df = 1 /\ dr = 2)
          [] piece_type = BISHOP -> _is_diagonal_clear(board, from_pos, to_pos)
          [] piece_type = ROOK -> _is_straight_clear(board, from_pos, to_pos)
          [] piece_type = QUEEN ->
                \/ _is_diagonal_clear(board, from_pos, to_pos)
                \/ _is_straight_clear(board, from_pos, to_pos)
          [] piece_type = KING -> df <= 1 /\ dr <= 1 /\ (df # 0 \/ dr # 0)
          [] OTHER -> FALSE

\* The scan "for rank ... for file ... break" finds the first king of the
\* colour in rank-major order; NoSquare when there is no such king.
FindKing(board, color) ==
    LET ks == {i \in 0..63 :
                 LET sq == board[i \div 8][i % 8]
                 IN  sq.piece_type = KING /\ sq.color = color}
    IN  IF ks = {} THEN NoSquare
        ELSE LET i == CHOOSE k \in ks : \A j \in ks : k <= j
             IN  <<i % 8, i \div 8>>

is_check_board(board, color) ==
    LET king_pos == FindKing(board, color)
    IN  /\ king_pos # NoSquare
        /\ \E rank \in Idx, file \in Idx :
              LET square == board[rank][file]
              IN  /\ ~empty(square)
                  /\ square.color = Opposite(color)
                  /\ _can_piece_attack(board, square.piece_type, <<file, rank>>, king_pos)

is_check(b, color) == is_check_board(b.board, color)

(***************************************************************************)
(* ChessBoard.make_move / undo_move (board.py 168-300, 582-634).           *)
(***************************************************************************)
_update_castling_rights(castling_rights, move) ==
    LET from_file == move.from_square[1]
        from_rank == move.from_square[2]
        to_file == move.to_square[1]
        to_rank == move.to_square[2]
        cr1 == IF move.piece_type = KING
               THEN IF move.color = WHITE
                    THEN [castling_rights EXCEPT !.K = FALSE, !.Q = FALSE]
                    ELSE [castling_rights EXCEPT !.k = FALSE, !.q = FALSE]
               ELSE IF move.piece_type = ROOK
               THEN IF move.color = WHITE
                    THEN IF from_file = 0 /\ from_rank = 7
                         THEN [castling_rights EXCEPT !.Q = FALSE]
                         ELSE IF from_file = 7 /\ from_rank = 7
                         THEN [castling_rights EXCEPT !.K = FALSE]
                         ELSE castling_rights
                    ELSE IF from_file = 0 /\ from_rank = 0
                         THEN [castling_rights EXCEPT !.q = FALSE]
                         ELSE IF from_file = 7 /\ from_rank = 0
                         THEN [castling_rights EXCEPT !.k = FALSE]
                         ELSE castling_rights
               ELSE castling_rights
    IN  IF ~move.is_capture THEN cr1
        ELSE IF to_file = 0 /\ to_rank = 0 THEN [cr1 EXCEPT !.q = FALSE]
        ELSE IF to_file = 7 /\ to_rank = 0 THEN [cr1 EXCEPT !.k = FALSE]
        ELSE IF to_file = 0 /\ to_rank = 7 THEN [cr1 EXCEPT !.Q = FALSE]
        ELSE IF to_file = 7 /\ to_rank = 7 THEN [cr1 EXCEPT !.K = FALSE]
        ELSE cr1

\* An update that records the square the pawn lands on instead of the one
\* it passed over (mutant of _update_en_passant_target).
_update_en_passant_target_on_destination(move) ==
    IF move.piece_type = PAWN /\ Abs(move.to_square[2] - move.from_square[2]) = 2
    THEN move.to_square
    ELSE NoSquare

_update_en_passant_target(move) ==
    LET to_file == move.to_square[1]
        to_rank == move.to_square[2]
        from_rank == move.from_square[2]
    IN  IF move.piece_type = PAWN /\ Abs(to_rank - from_rank) = 2
        THEN IF move.color = WHITE
             THEN <<to_file, to_rank + 1>>
             ELSE <<to_file, to_rank - 1>>
        ELSE NoSquare

\* A snapshot that forgets the en-passant target (mutant of board_state).
board_state_without_en_passant(b) ==
    [board |-> b.board,
     castling_rights |-> b.castling_rights,
     en_passant_target |-> NoSquare,
     halfmove_clock |-> b.halfmove_clock,
     fullmove_number |-> b.fullmove_number,
     current_player |-> b.current_player]

\* The snapshot pushed on position_history (board.py 192-199).
board_state(b) ==
    [board |-> b.board,
     castling_rights |-> b.castling_rights,
     en_passant_target |-> b.en_passant_target,
     halfmove_clock |-> b.halfmove_clock,
     fullmove_number |-> b.fullmove_number,
     current_player |-> b.current_player]

\* An undo that restores the snapshot but leaves the move on move_history
\* (mutant of undo_move).
undo_move_keeping_move(b) ==
    IF b.move_history = <<>> \/ b.position_history = <<>>
    THEN [b |-> b, ret |-> FALSE]
    ELSE LET previous_state == b.position_history[Len(b.position_history)]
         IN  [b |-> [board |-> previous_state.board,
                     castling_rights |-> previous_state.castling_rights,
                     en_passant_target |-> previous_state.en_passant_target,
                     halfmove_clock |-> previous_state.halfmove_clock,
                     fullmove_number |-> previous_state.fullmove_number,
                     current_player |-> previous_state.current_player,
                     move_history |-> b.move_history,
                     position_history |->
                         SubSeq(b.position_history, 1, Len(b.position_history) - 1)],
              ret |-> TRUE]

\* An undo that restores everything but the castling rights (mutant of
\* undo_move).
undo_move_keeping_castling_rights(b) ==
    IF b.move_history = <<>> \/ b.position_history = <<>>
    THEN [b |-> b, ret |-> FALSE]
    ELSE LET previous_state == b.position_history[Len(b.position_history)]
         IN  [b |-> [board |-> previous_state.board,
                     castling_rights |-> b.castling_rights,
                     en_passant_target |-> previous_state.en_passant_target,
                     halfmove_clock |-> previous_state.halfmove_clock,
                     fullmove_number |-> previous_state.fullmove_number,
                     current_player |-> previous_state.current_player,
                     move_history |-> SubSeq(b.move_history, 1, Len(b.move_history) - 1),
                     position_history |->
                         SubSeq(b.position_history, 1, Len(b.position_history) - 1)],
              ret |-> TRUE]

\* An undo that looks only at position_history before it pops (mutant of
\* undo_move).
undo_move_checking_snapshots_only(b) ==
    IF b.position_history = <<>>
    THEN [b |-> b, ret |-> FALSE]
    ELSE LET previous_state == b.position_history[Len(b.position_history)]
         IN  [b |-> [board |-> previous_state.board,
                     castling_rights |-> previous_state.castling_rights,
                     en_passant_target |-> previous_state.en_passant_target,
                     halfmove_clock |-> previous_state.halfmove_clock,
                     fullmove_number |-> previous_state.fullmove_number,
                     current_player |-> previous_state.current_player,
                     move_history |->
                         SubSeq(b.move_history, 1, Max(Len(b.move_history), 1) - 1),
                     position_history |->
                         SubSeq(b.position_history, 1, Len(b.position_history) - 1)],
              ret |-> TRUE]

undo_move(b) ==
    IF b.move_history = <<>> \/ b.position_history = <<>>
    THEN [b |-> b, ret |-> FALSE]
    ELSE LET previous_state == b.position_history[Len(b.position_history)]
         IN  [b |-> [board |-> previous_state.board,
                     castling_rights |-> previous_state.castling_rights,
                     en_passant_target |-> previous_state.en_passant_target,
                     halfmove_clock |-> previous_state.halfmove_clock,
                     fullmove_number |-> previous_state.fullmove_number,
                     current_player |-> previous_state.current_player,
                     move_history |-> SubSeq(b.move_history, 1, Len(b.move_history) - 1),
                     position_history |->
                         SubSeq(b.position_history, 1, Len(b.position_history) - 1)],
              ret |-> TRUE]

\* A list index as Python resolves it: -8..-1 count from the end; anything
\* else outside 0..7 raises IndexError.
RaisesIndexError(i) == i < -8 \/ i >= 8
PyIndex(i) == IF i < 0 THEN i + 8 ELSE i

\* The row an en passant capture clears (board.py 207-213), before Python
\* resolves the index.
en_passant_row(b0, move) ==
    IF b0.current_player = WHITE THEN move.to_square[2] + 1 ELSE move.to_square[2] - 1

\* board.py 202-259: the position after the move has been carried out, for a
\* move whose indices are all resolved; b0 already holds the pushed snapshot.
apply_move(b0, move, piece) ==
    LET from_file == move.from_square[1]
        from_rank == move.from_square[2]
        to_file == move.to_square[1]
        to_rank == move.to_square[2]
        player == b0.current_player
        ep_rank == PyIndex(en_passant_row(b0, move))
        \* captured_piece is a Square object (truthy even when empty) or None
        captured == move.is_en_passant \/ move.is_capture
        bd1 == IF move.is_en_passant
               THEN SetSq(b0.board, ep_rank, to_file, EmptySquare)
               ELSE b0.board
        bd2 == IF move.is_castling
               THEN IF to_file > from_file
                    THEN SetSq(SetSq(bd1, from_rank, 5, bd1[from_rank][7]),
                               from_rank, 7, EmptySquare)
                    ELSE SetSq(SetSq(bd1, from_rank, 3, bd1[from_rank][0]),
                               from_rank, 0, EmptySquare)
               ELSE bd1
        bd3 == SetSq(SetSq(bd2, to_rank, to_file, piece),
                     from_rank, from_file, EmptySquare)
        bd4 == IF move.promotion # NONE
               THEN SetSq(bd3, to_rank, to_file, Square(move.promotion, piece.color))
               ELSE bd3
        b1 == [b0 EXCEPT
                 !.board = bd4,
                 !.castling_rights = _update_castling_rights(@, move),
                 !.en_passant_target = _update_en_passant_target(move),
                 !.halfmove_clock = IF piece.piece_type = PAWN \/ captured
                                    THEN 0 ELSE @ + 1,
                 !.fullmove_number = IF player = BLACK THEN @ + 1 ELSE @,
                 !.move_history = Append(@, move),
                 !.current_player = Opposite(player)]
    IN  b1

\* The body of make_move after the snapshot has been pushed (board.py
\* 202-271).  An IndexError raised while the move is carried out is caught at
\* line 269: the call returns False with the snapshot still pushed.
make_move_body(b0, move, piece) ==
    LET b1 == apply_move(b0, move, piece)
    IN  IF move.is_en_passant /\ RaisesIndexError(en_passant_row(b0, move))
        THEN [b |-> b0, ret |-> FALSE]
        ELSE IF is_check(b1, Opposite(b1.current_player))
        THEN [b |-> undo_move(b1).b, ret |-> FALSE]
        ELSE [b |-> b1, ret |-> TRUE]

make_move(b, move) ==
    IF ~_is_valid_square(move.from_square) \/ ~_is_valid_square(move.to_square)
    THEN [b |-> b, ret |-> FALSE]
    ELSE LET piece == b.board[move.from_square[2]][move.from_square[1]]
         IN  IF empty(piece) \/ piece.color # b.current_player
             THEN [b |-> b, ret |-> FALSE]
             ELSE make_move_body(
                      [b EXCEPT !.position_history = Append(@, board_state(b))],
                      move, piece)

(***************************************************************************)
(* Move generation.  Lists are sequences, in the order the code appends.   *)
(***************************************************************************)
\* The concatenation of Op(s[1]), ..., Op(s[n]): a "for x in s: extend".
FlatMap(Op(_), s) ==
    LET acc[i \in 0..Len(s)] == IF i = 0 THEN <<>> ELSE acc[i - 1] \o Op(s[i])
    IN  acc[Len(s)]

\* The elements of s that satisfy Test, in order.
SelectInOrder(Test(_), s) ==
    FlatMap(LAMBDA x : IF Test(x) THEN <<x>> ELSE <<>>, s)

\* range(8)
Range8 == <<0, 1, 2, 3, 4, 5, 6, 7>>

knight_moves == << <<-2, -1>>, <<-2, 1>>, <<-1, -2>>, <<-1, 2>>,
                   <<1, -2>>, <<1, 2>>, <<2, -1>>, <<2, 1>> >>
king_moves == << <<-1, -1>>, <<-1, 0>>, <<-1, 1>>, <<0, -1>>,
                 <<0, 1>>, <<1, -1>>, <<1, 0>>, <<1, 1>> >>
rook_directions == << <<0, 1>>, <<0, -1>>, <<1, 0>>, <<-1, 0>> >>
diagonal_directions == << <<1, 1>>, <<1, -1>>, <<-1, 1>>, <<-1, -1>> >>

\* One direction of a sliding piece: "for distance in range(1, 8)" until the
\* edge, an own piece, or the first enemy piece (inclusive).
RECURSIVE RayFrom(_, _, _, _, _, _)
RayFrom(board, square, color, piece_type, dir, distance) ==
    LET new_file == square[1] + dir[1] * distance
        new_rank == square[2] + dir[2] * distance
    IN  IF distance >= 8 \/ ~_is_valid_square(<<new_file, new_rank>>)
        THEN <<>>
        ELSE LET target_square == board[new_rank][new_file]
             IN  IF empty(target_square)
                 THEN <<Move(square, <<new_file, new_rank>>, piece_type, color,
                             NONE, FALSE, FALSE, FALSE)>>
                      \o RayFrom(board, square, color, piece_type, dir, distance + 1)
                 ELSE IF target_square.color # color
                 THEN <<Move(square, <<new_file, new_rank>>, piece_type, color,
                             NONE, FALSE, FALSE, TRUE)>>
                 ELSE <<>>

\* Knight and king steps: fixed offsets onto empty or enemy squares.
StepMoves(board, square, color, piece_type, offsets) ==
    FlatMap(LAMBDA off :
              LET new_file == square[1] + off[1]
                  new_rank == square[2] + off[2]
              IN  IF _is_valid_square(<<new_file, new_rank>>)
                     /\ (empty(board[new_rank][new_file])
                         \/ board[new_rank][new_file].color # color)
                  THEN <<Move(square, <<new_file, new_rank>>, piece_type, color,
                              NONE, FALSE, FALSE, ~empty(board[new_rank][new_file]))>>
                  ELSE <<>>,
            offsets)

\* A pawn generator that knows the single push and the captures only.
PawnPushesAndCaptures_without_double_push(board, square, color) ==
    LET file == square[1]
        new_rank == square[2] + (IF color = WHITE THEN -1 ELSE 1)
    IN  IF 0 <= new_rank /\ new_rank < 8
        THEN (IF empty(board[new_rank][file])
              THEN <<Move(square, <<file, new_rank>>, PAWN, color,
                          NONE, FALSE, FALSE, FALSE)>>
              ELSE <<>>)
             \o FlatMap(LAMBDA file_offset :
                    LET new_file == file + file_offset
                    IN  IF 0 <= new_file /\ new_file < 8
                           /\ ~empty(board[new_rank][new_file])
                           /\ board[new_rank][new_file].color # color
                        THEN <<Move(square, <<new_file, new_rank>>, PAWN,
                                    color, NONE, FALSE, FALSE, TRUE)>>
                        ELSE <<>>,
                    <<-1, 1>>)
        ELSE <<>>

\* Pawn pushes and diagonal captures, common to board.py 658-685 and
\* move_generator.py 75-94.  new_rank is reassigned to the double-push rank
\* inside "if rank == start_rank", and the capture loop reads it afterwards.
PawnPushesAndCaptures(board, square, color) ==
    LET file == square[1]
        rank == square[2]
        direction == IF color = WHITE THEN -1 ELSE 1
        start_rank == IF color = WHITE THEN 6 ELSE 1
        new_rank == rank + direction
        ahead_empty == empty(board[new_rank][file])
        double_rank == rank + 2 * direction
        single == IF ahead_empty
                  THEN <<Move(square, <<file, new_rank>>, PAWN, color,
                              NONE, FALSE, FALSE, FALSE)>>
                  ELSE <<>>
        double == IF ahead_empty /\ rank = start_rank
                     /\ 0 <= double_rank /\ double_rank < 8
                     /\ empty(board[double_rank][file])
                  THEN <<Move(square, <<file, double_rank>>, PAWN, color,
                              NONE, FALSE, FALSE, FALSE)>>
                  ELSE <<>>
        capture_rank == IF ahead_empty /\ rank = start_rank
                        THEN double_rank ELSE new_rank
        captures == FlatMap(LAMBDA file_offset :
                       LET new_file == file + file_offset
                       IN  IF 0 <= new_file /\ new_file < 8
                              /\ ~empty(board[capture_rank][new_file])
                              /\ board[capture_rank][new_file].color # color
                           THEN <<Move(square, <<new_file, capture_rank>>, PAWN,
                                       color, NONE, FALSE, FALSE, TRUE)>>
                           ELSE <<>>,
                       <<-1, 1>>)
    IN  IF 0 <= new_rank /\ new_rank < 8
        THEN single \o double \o captures
        ELSE <<>>

(* board.py 636-760: the generators is_checkmate and is_stalemate use. *)
_generate_pawn_pseudo_moves(b, square, color) ==
    PawnPushesAndCaptures(b.board, square, color)

_generate_sliding_moves(b, square, color, piece_type, directions) ==
    FlatMap(LAMBDA dir : RayFrom(b.board, square, color, piece_type, dir, 1),
            directions)

_generate_pseudo_legal_moves_for_piece(b, square, piece) ==
    LET color == piece.color
    IN  CASE piece.piece_type = PAWN -> _generate_pawn_pseudo_moves(b, square, color)
          [] piece.piece_type = KNIGHT ->
                StepMoves(b.board, square, color, KNIGHT, knight_moves)
          [] piece.piece_type = BISHOP ->
                _generate_sliding_moves(b, square, color, BISHOP, diagonal_directions)
          [] piece.piece_type = ROOK ->
                _generate_sliding_moves(b, square, color, ROOK, rook_directions)
          [] piece.piece_type = QUEEN ->
                _generate_sliding_moves(b, square, color, QUEEN,
                                        rook_directions \o diagonal_directions)
          [] piece.piece_type = KING ->
                StepMoves(b.board, square, color, KING, king_moves)
          [] OTHER -> <<>>

(* move_generator.py *)
_generate_pawn_moves(b, square, color) ==
    LET file == square[1]
        rank == square[2]
        direction == IF color = WHITE THEN -1 ELSE 1
        promotion_rank == IF color = WHITE THEN 0 ELSE 7
        ep == b.en_passant_target
        en_passant ==
            IF ep # NoSquare /\ Abs(file - ep[1]) = 1 /\ rank = ep[2] - direction
            THEN <<_create_move(square, ep, PAWN, color, NONE, FALSE, TRUE, FALSE)>>
            ELSE <<>>
        promotions ==
            IF rank + direction = promotion_rank
            THEN [i \in 1..4 |->
                    _create_move(square, <<file, promotion_rank>>, PAWN, color,
                                 <<QUEEN, ROOK, BISHOP, KNIGHT>>[i],
                                 FALSE, FALSE, FALSE)]
            ELSE <<>>
    IN  PawnPushesAndCaptures(b.board, square, color) \o en_passant \o promotions

_generate_rook_moves(b, square, color) ==
    FlatMap(LAMBDA dir : RayFrom(b.board, square, color, ROOK, dir, 1),
            rook_directions)

_generate_diagonal_moves(b, square, color, piece_type) ==
    FlatMap(LAMBDA dir : RayFrom(b.board, square, color, piece_type, dir, 1),
            diagonal_directions)

\* The castling generator is a stub that returns no move.
_generate_castling_moves(b, square, color) == <<>>

_generate_king_moves(b, square, color) ==
    StepMoves(b.board, square, color, KING, king_moves)
        \o _generate_castling_moves(b, square, color)

_generate_piece_moves(b, square, piece) ==
    LET color == piece.color
    IN  CASE piece.piece_type = PAWN -> _generate_pawn_moves(b, square, color)
          [] piece.piece_type = KNIGHT ->
                StepMoves(b.board, square, color, KNIGHT, knight_moves)
          [] piece.piece_type = BISHOP ->
                _generate_diagonal_moves(b, square, color, BISHOP)
          [] piece.piece_type = ROOK -> _generate_rook_moves(b, square, color)
          [] piece.piece_type = QUEEN ->
                _generate_rook_moves(b, square, color)
                    \o _generate_diagonal_moves(b, square, color, QUEEN)
          [] piece.piece_type = KING -> _generate_king_moves(b, square, color)
          [] OTHER -> <<>>

\* The legality filter is a stub that accepts every move.
_is_legal_move(b, move) == TRUE

generate_legal_moves(b, color) ==
    LET moves == FlatMap(LAMBDA rank :
                     FlatMap(LAMBDA file :
                         LET piece == get_piece(b.board, <<file, rank>>)
                         IN  IF ~empty(piece) /\ piece.color = color
                             THEN _generate_piece_moves(b, <<file, rank>>, piece)
                             ELSE <<>>,
                         Range8),
                     Range8)
    IN  SelectInOrder(LAMBDA move : _is_legal_move(b, move), moves)

(***************************************************************************)
(* Checkmate and stalemate (board.py 338-432).                             *)
(***************************************************************************)
\* The scan both helpers share: some pseudo-legal move of some piece of the
\* colour is accepted by make_move on a copy whose side to move is color.
has_legal_move(b, color) ==
    \E rank \in Idx, file \in Idx :
        LET square == get_piece(b.board, <<file, rank>>)
        IN  /\ ~empty(square)
            /\ square.color = color
            /\ LET pseudo_moves ==
                       _generate_pseudo_legal_moves_for_piece(b, <<file, rank>>, square)
               IN  \E k \in 1..Len(pseudo_moves) :
                      LET r == make_move([b EXCEPT !.current_player = color],
                                         pseudo_moves[k])
                      IN  r.ret /\ ~is_check(r.b, color)

is_checkmate(b, color) ==
    IF ~is_check(b, color) THEN FALSE ELSE ~has_legal_move(b, color)

is_stalemate(b, color) ==
    IF is_check(b, color) THEN FALSE ELSE ~has_legal_move(b, color)

(***************************************************************************)
(* FEN: ChessBoard(fen) and _get_fen (board.py 78-156, 434-488).  A string  *)
(* is a sequence of one-character strings.                                 *)
(***************************************************************************)
Digits == <<"0", "1", "2", "3", "4", "5", "6", "7", "8", "9">>
\* The lower-case letters, so that ord(char) - ord('a') is an index into them.
Letters == <<"a", "b", "c", "d", "e", "f", "g", "h", "i", "j", "k", "l", "m",
             "n", "o", "p", "q", "r", "s", "t", "u", "v", "w", "x", "y", "z">>
isdigit(char) == \E i \in 1..10 : Digits[i] = char
DigitValue(char) == (CHOOSE i \in 1..10 : Digits[i] = char) - 1
\* ord(char) - ord('a'), for a lower-case letter.
FileValue(char) == (CHOOSE i \in 1..26 : Letters[i] = char) - 1

\* int(s) raises ValueError for a text that is not a numeral (here: one that
\* holds a character other than a digit).
int_raises(text) == \E i \in 1..Len(text) : ~isdigit(text[i])

\* int(s) and str(n) for non-negative decimal numerals.
int(text) ==
    LET acc[i \in 0..Len(text)] ==
            IF i = 0 THEN 0 ELSE acc[i - 1] * 10 + DigitValue(text[i])
    IN  acc[Len(text)]

RECURSIVE str(_)
str(n) == IF n < 10 THEN <<Digits[n + 1]>> ELSE str(n \div 10) \o <<Digits[(n % 10) + 1]>>

\* str.split(): the maximal runs of non-blank characters.
split(fen) ==
    LET acc[i \in 0..Len(fen)] ==
            IF i = 0 THEN [parts |-> <<>>, cur |-> <<>>]
            ELSE IF fen[i] = " "
                 THEN IF acc[i - 1].cur = <<>> THEN acc[i - 1]
                      ELSE [parts |-> Append(acc[i - 1].parts, acc[i - 1].cur),
                            cur |-> <<>>]
                 ELSE [acc[i - 1] EXCEPT !.cur = Append(@, fen[i])]
        last == acc[Len(fen)]
    IN  IF last.cur = <<>> THEN last.parts ELSE Append(last.parts, last.cur)

_char_to_piece(char) ==
    CASE char = "P" -> Square(PAWN, WHITE)
      [] char = "N" -> Square(KNIGHT, WHITE)
      [] char = "B" -> Square(BISHOP, WHITE)
      [] char = "R" -> Square(ROOK, WHITE)
      [] char = "Q" -> Square(QUEEN, WHITE)
      [] char = "K" -> Square(KING, WHITE)
      [] char = "p" -> Square(PAWN, BLACK)
      [] char = "n" -> Square(KNIGHT, BLACK)
      [] char = "b" -> Square(BISHOP, BLACK)
      [] char = "r" -> Square(ROOK, BLACK)
      [] char = "q" -> Square(QUEEN, BLACK)
      [] char = "k" -> Square(KING, BLACK)

\* Square.__str__
SquareStr(square) ==
    CASE square = Square(PAWN, WHITE) -> "P"
      [] square = Square(KNIGHT, WHITE) -> "N"
      [] square = Square(BISHOP, WHITE) -> "B"
      [] square = Square(ROOK, WHITE) -> "R"
      [] square = Square(QUEEN, WHITE) -> "Q"
      [] square = Square(KING, WHITE) -> "K"
      [] square = Square(PAWN, BLACK) -> "p"
      [] square = Square(KNIGHT, BLACK) -> "n"
      [] square = Square(BISHOP, BLACK) -> "b"
      [] square = Square(ROOK, BLACK) -> "r"
      [] square = Square(QUEEN, BLACK) -> "q"
      [] square = Square(KING, BLACK) -> "k"
      [] square = EmptySquare -> "."
      [] OTHER -> "?"

EmptyBoard == [rank \in Idx |-> [file \in Idx |-> EmptySquare]]

\* The keys of piece_map: any other character raises KeyError.
piece_map_keys == {"P", "N", "B", "R", "Q", "K", "p", "n", "b", "r", "q", "k"}

\* The piece-placement loop of _load_from_fen (board.py 103-116): the board
\* it fills, and whether it raised (KeyError for a character that is no
\* piece, IndexError for a piece put on rank 8 or file 8 and beyond; a "/"
\* or a digit only moves the cursor and never raises).
PlacementLoop(board_str) ==
    LET acc[i \in 0..Len(board_str)] ==
            IF i = 0 THEN [board |-> EmptyBoard, rank |-> 0, file |-> 0, raised |-> FALSE]
            ELSE LET a == acc[i - 1]
                     char == board_str[i]
                 IN  IF a.raised THEN a
                     ELSE IF char = "/"
                     THEN [a EXCEPT !.rank = @ + 1, !.file = 0]
                     ELSE IF isdigit(char)
                     THEN [a EXCEPT !.file = @ + DigitValue(char)]
                     ELSE IF char \notin piece_map_keys \/ a.rank > 7 \/ a.file > 7
                     THEN [a EXCEPT !.raised = TRUE]
                     ELSE [a EXCEPT !.board = SetSq(@, a.rank, a.file, _char_to_piece(char)),
                                    !.file = @ + 1]
    IN  acc[Len(board_str)]

ParsePlacement(board_str) == PlacementLoop(board_str).board

Contains(text, char) == \E i \in 1..Len(text) : text[i] = char

\* Whether _load_from_fen raises: ValueError for a field count other than
\* 6 (line 99), an error of the placement loop, IndexError or ValueError for
\* an en-passant field other than "-" whose second character is missing or
\* no digit (line 131), ValueError for a clock that is no numeral (134-135).
\* Nothing checks the side-to-move field, the letters of the castling field,
\* the range of the en-passant square or the lengths of ranks.
_load_from_fen_raises(fen) ==
    LET parts == split(fen)
    IN  \/ Len(parts) # 6
        \/ /\ Len(parts) = 6
           /\ \/ PlacementLoop(parts[1]).raised
              \/ /\ parts[4] # <<"-">>
                 /\ (Len(parts[4]) < 2 \/ ~isdigit(parts[4][2]))
              \/ int_raises(parts[5])
              \/ int_raises(parts[6])

\* ChessBoard(fen) for a FEN the constructor accepts.
_load_from_fen(fen) ==
    LET parts == split(fen)
    IN  [board |-> ParsePlacement(parts[1]),
         current_player |-> IF parts[2] = <<"w">> THEN WHITE ELSE BLACK,
         castling_rights |-> [K |-> Contains(parts[3], "K"),
                              Q |-> Contains(parts[3], "Q"),
                              k |-> Contains(parts[3], "k"),
                              q |-> Contains(parts[3], "q")],
         en_passant_target |->
             IF parts[4] # <<"-">>
             THEN <<FileValue(parts[4][1]), 8 - DigitValue(parts[4][2])>>
             ELSE NoSquare,
         halfmove_clock |-> int(parts[5]),
         fullmove_number |-> int(parts[6]),
         move_history |-> <<>>,
         position_history |-> <<>>]

\* A rank written without the count of the empty squares that end it
\* (mutant of RankStr).
RankStr_without_trailing_count(row) ==
    LET acc[file \in 0..8] ==
            IF file = 0 THEN [s |-> <<>>, empty_count |-> 0]
            ELSE LET a == acc[file - 1]
                     square == row[file - 1]
                 IN  IF empty(square)
                     THEN [a EXCEPT !.empty_count = @ + 1]
                     ELSE [s |-> (IF a.empty_count > 0
                                  THEN a.s \o str(a.empty_count) ELSE a.s)
                                 \o <<SquareStr(square)>>,
                           empty_count |-> 0]
    IN  acc[8].s

\* One rank of the piece-placement field (board.py 440-456).
RankStr(row) ==
    LET acc[file \in 0..8] ==
            IF file = 0 THEN [s |-> <<>>, empty_count |-> 0]
            ELSE LET a == acc[file - 1]
                     square == row[file - 1]
                 IN  IF empty(square)
                     THEN [a EXCEPT !.empty_count = @ + 1]
                     ELSE [s |-> (IF a.empty_count > 0
                                  THEN a.s \o str(a.empty_count) ELSE a.s)
                                 \o <<SquareStr(square)>>,
                           empty_count |-> 0]
    IN  IF acc[8].empty_count > 0
        THEN acc[8].s \o str(acc[8].empty_count)
        ELSE acc[8].s

_get_fen(b) ==
    LET board_fen ==
            LET acc[rank \in 0..7] ==
                    IF rank = 0 THEN RankStr(b.board[0])
                    ELSE acc[rank - 1] \o <<"/">> \o RankStr(b.board[rank])
            IN  acc[7]
        active_color == IF b.current_player = WHITE THEN <<"w">> ELSE <<"b">>
        castling0 == (IF b.castling_rights.K THEN <<"K">> ELSE <<>>)
                     \o (IF b.castling_rights.Q THEN <<"Q">> ELSE <<>>)
                     \o (IF b.castling_rights.k THEN <<"k">> ELSE <<>>)
                     \o (IF b.castling_rights.q THEN <<"q">> ELSE <<>>)
        castling == IF castling0 = <<>> THEN <<"-">> ELSE castling0
        en_passant == IF b.en_passant_target # NoSquare
                      THEN <<Letters[b.en_passant_target[1] + 1]>>
                           \o str(8 - b.en_passant_target[2])
                      ELSE <<"-">>
    IN  board_fen \o <<" ">> \o active_color \o <<" ">> \o castling \o <<" ">>
        \o en_passant \o <<" ">> \o str(b.halfmove_clock) \o <<" ">>
        \o str(b.fullmove_number)

(***************************************************************************)
(* Scores.  The code computes with Python floats; the model computes the   *)
(* same sums exactly, as fractions n/d in lowest terms, with the two       *)
(* infinities float('inf') and float('-inf').                              *)
(***************************************************************************)
RECURSIVE GCD(_, _)
GCD(x, y) == IF y = 0 THEN x ELSE GCD(y, x % y)

Rat(n, d) ==
    LET g == GCD(Abs(n), d)
    IN  [inf |-> 0, n |-> n \div g, d |-> d \div g]

PosInf == [inf |-> 1, n |-> 0, d |-> 1]
NegInf == [inf |-> -1, n |-> 0, d |-> 1]
Zero == Rat(0, 1)

Neg(x) == [inf |-> -x.inf, n |-> -x.n, d |-> x.d]
Lt(x, y) ==
    IF x.inf # 0 \/ y.inf # 0 THEN x.inf < y.inf ELSE x.n * y.d < y.n * x.d
Le(x, y) == x = y \/ Lt(x, y)
ScoreMax(x, y) == IF Lt(x, y) THEN y ELSE x
ScoreMin(x, y) == IF Lt(y, x) THEN y ELSE x

(***************************************************************************)
(* EvaluationEngine (evaluation.py).                                       *)
(***************************************************************************)
\* sum(F(x) for x in s)
SumSeq(F(_), s) ==
    LET acc[i \in 0..Len(s)] == IF i = 0 THEN 0 ELSE acc[i - 1] + F(s[i])
    IN  acc[Len(s)]

\* for rank in range(8): for file in range(8): total += F(file, rank)
SumBoard(F(_, _)) ==
    SumSeq(LAMBDA rank : SumSeq(LAMBDA file : F(file, rank), Range8), Range8)

material_values(piece_type) ==
    CASE piece_type = PAWN -> 100
      [] piece_type = KNIGHT -> 320
      [] piece_type = BISHOP -> 330
      [] piece_type = ROOK -> 500
      [] piece_type = QUEEN -> 900
      [] piece_type = KING -> 20000

PawnTable ==
    << <<0, 0, 0, 0, 0, 0, 0, 0>>,
       <<50, 50, 50, 50, 50, 50, 50, 50>>,
       <<10, 10, 20, 30, 30, 20, 10, 10>>,
       <<5, 5, 10, 25, 25, 10, 5, 5>>,
       <<0, 0, 0, 20, 20, 0, 0, 0>>,
       <<5, -5, -10, 0, 0, -10, -5, 5>>,
       <<5, 10, 10, -20, -20, 10, 10, 5>>,
       <<0, 0, 0, 0, 0, 0, 0, 0>> >>

KnightTable ==
    << <<-50, -40, -30, -30, -30, -30, -40, -50>>,
       <<-40, -20, 0, 0, 0, 0, -20, -40>>,
       <<-30, 0, 10, 15, 15, 10, 0, -30>>,
       <<-30, 5, 15, 20, 20, 15, 5, -30>>,
       <<-30, 0, 15, 20, 20, 15, 0, -30>>,
       <<-30, 5, 10, 15, 15, 10, 5, -30>>,
       <<-40, -20, 0, 5, 5, 0, -20, -40>>,
       <<-50, -40, -30, -30, -30, -30, -40, -50>> >>

BishopTable ==
    << <<-20, -10, -10, -10, -10, -10, -10, -20>>,
       <<-10, 0, 0, 0, 0, 0, 0, -10>>,
       <<-10, 0, 5, 10, 10, 5, 0, -10>>,
       <<-10, 5, 5, 10, 10, 5, 5, -10>>,
       <<-10, 0, 10, 10, 10, 10, 0, -10>>,
       <<-10, 10, 10, 10, 10, 10, 10, -10>>,
       <<-10, 5, 0, 0, 0, 0, 5, -10>>,
       <<-20, -10, -10, -10, -10, -10, -10, -20>> >>

RookTable ==
    << <<0, 0, 0, 0, 0, 0, 0, 0>>,
       <<5, 10, 10, 10, 10, 10, 10, 5>>,
       <<-5, 0, 0, 0, 0, 0, 0, -5>>,
       <<-5, 0, 0, 0, 0, 0, 0, -5>>,
       <<-5, 0, 0, 0, 0, 0, 0, -5>>,
       <<-5, 0, 0, 0, 0, 0, 0, -5>>,
       <<-5, 0, 0, 0, 0, 0, 0, -5>>,
       <<0, 0, 0, 5, 5, 0, 0, 0>> >>

QueenTable ==
    << <<-20, -10, -10, -5, -5, -10, -10, -20>>,
       <<-10, 0, 0, 0, 0, 0, 0, -10>>,
       <<-10, 0, 5, 5, 5, 5, 0, -10>>,
       <<-5, 0, 5, 5, 5, 5, 0, -5>>,
       <<0, 0, 5, 5, 5, 5, 0, -5>>,
       <<-10, 5, 5, 5, 5, 5, 0, -10>>,
       <<-10, 0, 5, 0, 0, 0, 0, -10>>,
       <<-20, -10, -10, -5, -5, -10, -10, -20>> >>

KingTable ==
    << <<-30, -40, -40, -50, -50, -40, -40, -30>>,
       <<-30, -40, -40, -50, -50, -40, -40, -30>>,
       <<-30, -40, -40, -50, -50, -40, -40, -30>>,
       <<-30, -40, -40, -50, -50, -40, -40, -30>>,
       <<-20, -30, -30, -40, -40, -30, -30, -20>>,
       <<-10, -20, -20, -20, -20, -20, -20, -10>>,
       <<20, 20, 0, 0, 0, 0, 20, 20>>,
       <<20, 30, 10, 0, 0, 10, 30, 20>> >>

piece_square_tables(piece_type) ==
    CASE piece_type = PAWN -> PawnTable
      [] piece_type = KNIGHT -> KnightTable
      [] piece_type = BISHOP -> BishopTable
      [] piece_type = ROOK -> RookTable
      [] piece_type = QUEEN -> QueenTable
      [] piece_type = KING -> KingTable

\* The default weights of _load_weights (all 1.0).
weights ==
    [material |-> 1, position |-> 1, king_safety |-> 1, pawn_structure |-> 1,
     mobility |-> 1, center_control |-> 1, development |-> 1, tempo |-> 1]

_evaluate_material(b, color) ==
    SumBoard(LAMBDA file, rank :
        LET square == b.board[rank][file]
        IN  IF empty(square) THEN 0
            ELSE IF square.color = color
            THEN material_values(square.piece_type)
            ELSE -material_values(square.piece_type))

_evaluate_position(b, color) ==
    SumBoard(LAMBDA file, rank :
        LET square == b.board[rank][file]
            piece_table == piece_square_tables(square.piece_type)
            table_value == IF square.color = WHITE
                           THEN piece_table[rank + 1][file + 1]
                           ELSE piece_table[(7 - rank) + 1][file + 1]
        IN  IF empty(square) THEN 0
            ELSE IF square.color = color THEN table_value ELSE -table_value)

_evaluate_king_safety(b, color) ==
    LET king_pos == FindKing(b.board, color)
        king_file == king_pos[1]
        king_rank == king_pos[2]
        ShieldOnFile(shield_file) ==
            LET r1 == IF color = WHITE THEN king_rank - 1 ELSE king_rank + 1
                r2 == IF color = WHITE THEN king_rank - 2 ELSE king_rank + 2
                PawnAt(r) == /\ 0 <= r /\ r < 8
                             /\ b.board[r][shield_file] = Square(PAWN, color)
            IN  IF 0 <= shield_file /\ shield_file < 8 /\ (PawnAt(r1) \/ PawnAt(r2))
                THEN 10 ELSE 0
        pawn_shield_bonus == SumSeq(LAMBDA file_offset : ShieldOnFile(king_file + file_offset),
                                    <<-1, 0, 1>>)
        center_penalty ==
            IF Len(b.move_history) < 20
            THEN (IF 2 <= king_file /\ king_file <= 5 THEN -20 ELSE 0)
                 + (IF color = WHITE /\ king_rank > 1 THEN -15
                    ELSE IF color = BLACK /\ king_rank < 6 THEN -15 ELSE 0)
            ELSE 0
        castling_bonus ==
            IF color = WHITE
            THEN IF king_pos = <<6, 7>> \/ king_pos = <<2, 7>> THEN 30 ELSE 0
            ELSE IF king_pos = <<6, 0>> \/ king_pos = <<2, 0>> THEN 30 ELSE 0
    IN  IF king_pos = NoSquare THEN -1000
        ELSE pawn_shield_bonus + center_penalty + castling_bonus

\* The pawns of a colour as (file, rank) pairs.  The code keeps them in a
\* list; every use of the list is a count or a membership test.
PawnsOf(b, color) ==
    {sq \in Idx \X Idx : b.board[sq[2]][sq[1]] = Square(PAWN, color)}

\* What one pawn on pawn_file is charged for doubled pawns (lines 337-339).
DoubledCharge(own_pawns, pawn_file) ==
    LET doubled_count == Cardinality({p \in own_pawns : p[1] = pawn_file})
    IN  IF doubled_count > 1 THEN 10 * (doubled_count - 1) ELSE 0

_evaluate_pawn_structure(b, color) ==
    LET own_pawns == PawnsOf(b, color)
        enemy_pawns == {sq \in Idx \X Idx :
                           /\ b.board[sq[2]][sq[1]].piece_type = PAWN
                           /\ b.board[sq[2]][sq[1]].color # color}
        PawnScore(file, rank) ==
            LET doubled == -DoubledCharge(own_pawns, file)
                has_adjacent_pawn ==
                    \E p \in own_pawns : p[1] = file - 1 \/ p[1] = file + 1
                isolated == IF has_adjacent_pawn THEN 0 ELSE -15
                is_passed ==
                    IF color = WHITE
                    THEN ~\E e \in enemy_pawns : Abs(e[1] - file) <= 1 /\ e[2] < rank
                    ELSE ~\E e \in enemy_pawns : Abs(e[1] - file) <= 1 /\ e[2] > rank
                passed == IF ~is_passed THEN 0
                          ELSE IF color = WHITE THEN 20 + (6 - rank) * 10
                          ELSE 20 + (rank - 1) * 10
                support_rank == IF color = WHITE THEN rank + 1 ELSE rank - 1
                chain_bonus ==
                    SumSeq(LAMBDA support_file :
                               IF /\ 0 <= support_file /\ support_file < 8
                                  /\ (IF color = WHITE THEN rank < 7 ELSE rank > 0)
                                  /\ <<support_file, support_rank>> \in own_pawns
                               THEN 5 ELSE 0,
                           <<file - 1, file + 1>>)
            IN  doubled + isolated + passed + chain_bonus
    IN  SumBoard(LAMBDA file, rank :
            IF <<file, rank>> \in own_pawns THEN PawnScore(file, rank) ELSE 0)

\* Twice the mobility score (the weights 2, 1.5, 1.0 and 0.5 become 4, 3, 2, 1).
TwiceMobility(b, color) ==
    SumBoard(LAMBDA file, rank :
        LET square == b.board[rank][file]
            sq == <<file, rank>>
            Reach(piece_type, directions) ==
                Len(FlatMap(LAMBDA dir : RayFrom(b.board, sq, color, piece_type, dir, 1),
                            directions))
        IN  IF empty(square) \/ square.color # color THEN 0
            ELSE CASE square.piece_type = KNIGHT ->
                        4 * Len(StepMoves(b.board, sq, color, KNIGHT, knight_moves))
                   [] square.piece_type = BISHOP -> 3 * Reach(BISHOP, diagonal_directions)
                   [] square.piece_type = ROOK -> 2 * Reach(ROOK, rook_directions)
                   [] square.piece_type = QUEEN ->
                        Reach(QUEEN, rook_directions \o diagonal_directions)
                   [] OTHER -> 0)

center_squares == << <<3, 3>>, <<3, 4>>, <<4, 3>>, <<4, 4>> >>

_evaluate_center_control(b, color) ==
    LET Occupation(c) ==
            LET square == get_piece(b.board, c)
            IN  IF empty(square) THEN 0 ELSE IF square.color = color THEN 10 ELSE -5
        Control(c) ==
            IF ~empty(get_piece(b.board, c)) THEN 0
            ELSE 2 * SumBoard(LAMBDA f, r :
                        LET piece_square == b.board[r][f]
                        IN  IF ~empty(piece_square)
                               /\ _can_piece_attack(b.board, piece_square.piece_type,
                                                    <<f, r>>, c)
                            THEN IF piece_square.color = color THEN 1 ELSE -1
                            ELSE 0)
    IN  SumSeq(LAMBDA c : Occupation(c), center_squares)
        + SumSeq(LAMBDA c : Control(c), center_squares)

_evaluate_development(b, color) ==
    LET back_rank == IF color = WHITE THEN 7 ELSE 0
        pieces_to_check == << <<1, KNIGHT>>, <<6, KNIGHT>>, <<2, BISHOP>>, <<5, BISHOP>> >>
        undeveloped ==
            SumSeq(LAMBDA pc : IF b.board[back_rank][pc[1]] = Square(pc[2], color)
                               THEN -5 ELSE 0,
                   pieces_to_check)
        king_pos == FindKing(b.board, color)
        castled == IF color = WHITE
                   THEN IF king_pos = <<6, 7>> \/ king_pos = <<2, 7>> THEN 20 ELSE 0
                   ELSE IF king_pos = <<6, 0>> \/ king_pos = <<2, 0>> THEN 20 ELSE 0
    IN  IF Len(b.move_history) > 30 THEN 0 ELSE undeveloped + castled

\* The two parts of the tempo score: the bonus for having the move, and the
\* pair (active_pieces, total_pieces) whose ratio times 10 is added to it.
TempoBonus(b, color) == IF b.current_player = color THEN 5 ELSE 0

is_on_starting_square(color, rank, square) ==
    IF color = WHITE
    THEN rank = 7 \/ (rank = 6 /\ square.piece_type = PAWN)
    ELSE rank = 0 \/ (rank = 1 /\ square.piece_type = PAWN)

total_pieces(b, color) ==
    SumBoard(LAMBDA file, rank :
        IF b.board[rank][file].color = color THEN 1 ELSE 0)

active_pieces(b, color) ==
    SumBoard(LAMBDA file, rank :
        IF b.board[rank][file].color = color
           /\ ~is_on_starting_square(color, rank, b.board[rank][file])
        THEN 1 ELSE 0)

_evaluate_tempo(b, color) ==
    LET t == total_pieces(b, color)
    IN  IF t > 0
        THEN Rat(TempoBonus(b, color) * t + 10 * active_pieces(b, color), t)
        ELSE Rat(TempoBonus(b, color), 1)

\* The weighted sum of evaluation.py 189-198.
total_score(b, color) ==
    LET whole == _evaluate_material(b, color) * weights.material
                 + _evaluate_position(b, color) * weights.position
                 + _evaluate_king_safety(b, color) * weights.king_safety
                 + _evaluate_pawn_structure(b, color) * weights.pawn_structure
                 + _evaluate_center_control(b, color) * weights.center_control
                 + _evaluate_development(b, color) * weights.development
        twice_mobility == TwiceMobility(b, color) * weights.mobility
        tempo == _evaluate_tempo(b, color)
    IN  Rat((2 * whole + twice_mobility) * tempo.d + 2 * tempo.n * weights.tempo,
            2 * tempo.d)

\* An evaluate without the stalemate short-circuit (mutant of evaluate).
evaluate_without_stalemate(b, color) ==
    IF is_checkmate(b, color) THEN NegInf
    ELSE IF is_checkmate(b, Opposite(color)) THEN PosInf
    ELSE total_score(b, color)

evaluate(b, color) ==
    IF is_checkmate(b, color) THEN NegInf
    ELSE IF is_checkmate(b, Opposite(color)) THEN PosInf
    ELSE IF is_stalemate(b, color) THEN Zero
    ELSE total_score(b, color)

(***************************************************************************)
(* Positions the boards are constructed from.                              *)
(***************************************************************************)
\* The default argument of ChessBoard.__init__ (board.py 78).
\* rnbqkbnr/pppppppp/8/8/8/8/PPPPPPPP/RNBQKBNR w KQkq - 0 1
FenStart ==
    <<"r", "n", "b", "q", "k", "b", "n", "r", "/", "p", "p", "p", "p", "p", 
      "p", "p", "p", "/", "8", "/", "8", "/", "8", "/", "8", "/", "P", "P", 
      "P", "P", "P", "P", "P", "P", "/", "R", "N", "B", "Q", "K", "B", "N", 
      "R", " ", "w", " ", "K", "Q", "k", "q", " ", "-", " ", "0", " ", "1">>

\* White can capture en passant, castle, promote and capture.
\* 1n2k3/P7/8/3pP3/8/8/8/4K2R w K d6 0 1
FenSpecial ==
    <<"1", "n", "2", "k", "3", "/", "P", "7", "/", "8", "/", "3", "p", "P", 
      "3", "/", "8", "/", "8", "/", "8", "/", "4", "K", "2", "R", " ", "w", 
      " ", "K", " ", "d", "6", " ", "0", " ", "1">>

\* The same with colours reversed.
\* 4k2r/8/8/8/3Pp3/8/p7/1N2K3 b k d3 0 1
FenSpecialBlack ==
    <<"4", "k", "2", "r", "/", "8", "/", "8", "/", "8", "/", "3", "P", "p", 
      "3", "/", "8", "/", "p", "7", "/", "1", "N", "2", "K", "3", " ", "b", 
      " ", "k", " ", "d", "3", " ", "0", " ", "1">>

\* Back-rank mate in one (Ra8).
\* 6k1/5ppp/8/8/8/8/8/R3K3 w Q - 0 1
FenBackRank ==
    <<"6", "k", "1", "/", "5", "p", "p", "p", "/", "8", "/", "8", "/", "8", 
      "/", "8", "/", "8", "/", "R", "3", "K", "3", " ", "w", " ", "Q", " ", 
      "-", " ", "0", " ", "1">>

\* Black is checkmated on the back rank.
\* R5k1/5ppp/8/8/8/8/8/4K3 b - - 1 1
FenMated ==
    <<"R", "5", "k", "1", "/", "5", "p", "p", "p", "/", "8", "/", "8", "/", 
      "8", "/", "8", "/", "8", "/", "4", "K", "3", " ", "b", " ", "-", " ", 
      "-", " ", "1", " ", "1">>

\* Black is stalemated.
\* 7k/5Q2/6K1/8/8/8/8/8 b - - 0 1
FenStalemate ==
    <<"7", "k", "/", "5", "Q", "2", "/", "6", "K", "1", "/", "8", "/", "8", 
      "/", "8", "/", "8", "/", "8", " ", "b", " ", "-", " ", "-", " ", "0", 
      " ", "1">>

\* White is in check and the only legal move is c5xb6 en passant.
\* 7k/8/p7/1pP5/K7/7r/3q4/8 w - b6 0 1
FenEpOnly ==
    <<"7", "k", "/", "8", "/", "p", "7", "/", "1", "p", "P", "5", "/", "K", 
      "7", "/", "7", "r", "/", "3", "q", "4", "/", "8", " ", "w", " ", "-", 
      " ", "b", "6", " ", "0", " ", "1">>

\* The white knight is pinned to its king.
\* 4r2k/8/8/8/8/8/4N3/4K3 w - - 0 1
\* "7k/8/6K1/5Q2/8/8/8/8 w - - 0 1": Qf5-f7 stalemates Black.
FenPreStalemate ==
    <<"7","k","/","8","/","6","K","1","/","5","Q","2","/","8","/","8","/","8","/","8",
      " ","w"," ","-"," ","-"," ","0"," ","1">>

\* "r5k1/5ppp/8/8/1P2Q3/8/1P6/KR6 w - - 0 1": White is in check and the only
\* move that answers it, Qe4xa8, mates Black.
FenOnlyMoveMates ==
    <<"r","5","k","1","/","5","p","p","p","/","8","/","8","/","1","P","2","Q","3","/",
      "8","/","1","P","6","/","K","R","6"," ","w"," ","-"," ","-"," ","0"," ","1">>

FenPinned ==
    <<"4", "r", "2", "k", "/", "8", "/", "8", "/", "8", "/", "8", "/", "8", 
      "/", "4", "N", "3", "/", "4", "K", "3", " ", "w", " ", "-", " ", "-", 
      " ", "0", " ", "1">>


\* White can advance the a-pawn two squares.
\* 4k3/p7/8/1P6/8/8/P7/4K3 w - - 0 1
FenDoublePush ==
    <<"4", "k", "3", "/", "p", "7", "/", "8", "/", "1", "P", "6", "/", "8", "/", "8", "/", "P", "7", "/", "4", "K", "3", " ", "w", " ", "-", " ", "-", " ", "0", " ", "1">>

\* White is checkmated; the white pawn on a7 stands right below the rook
\* that gives the check.
\* r6K/P7/6k1/8/8/8/8/8 w - - 0 1
FenBlockedPromotionMate ==
    <<"r", "6", "K", "/", "P", "7", "/", "6", "k", "1", "/", "8", "/", "8", "/", "8", "/", "8", "/", "8", " ", "w", " ", "-", " ", "-", " ", "0", " ", "1">>

\* After a5-a6 (and other moves of White) Black mates by capturing: Rb8xb1.
\* 1r4k1/8/8/P7/8/8/6PP/1N5K w - - 0 1
FenMatingCapture ==
    <<"1", "r", "4", "k", "1", "/", "8", "/", "8", "/", "P", "7", "/", "8", "/", "8", "/", "6", "P", "P", "/", "1", "N", "5", "K", " ", "w", " ", "-", " ", "-", " ", "0", " ", "1">>

\* ChessBoard(fen)
ChessBoard(fen) == _load_from_fen(fen)

Range(s) == {s[i] : i \in 1..Len(s)}

\* Move values a caller may pass besides the generated ones: castling moves
\* (the generator produces none), moves with off-board coordinates, from an
\* empty square, moves whose flags do not match the board, a rook move
\* described as a pawn move, and a pawn moved two squares backwards.
ExtraMoves ==
    { Move(<<4, 7>>, <<6, 7>>, KING, WHITE, NONE, TRUE, FALSE, FALSE),
      Move(<<4, 7>>, <<2, 7>>, KING, WHITE, NONE, TRUE, FALSE, FALSE),
      Move(<<4, 0>>, <<6, 0>>, KING, BLACK, NONE, TRUE, FALSE, FALSE),
      Move(<<4, 7>>, <<4, 8>>, KING, WHITE, NONE, FALSE, FALSE, FALSE),
      Move(<<-1, 0>>, <<0, 0>>, KING, BLACK, NONE, FALSE, FALSE, FALSE),
      Move(<<3, 3>>, <<3, 2>>, PAWN, WHITE, NONE, FALSE, FALSE, FALSE),
      Move(<<4, 7>>, <<3, 7>>, KING, WHITE, NONE, FALSE, TRUE, FALSE),
      Move(<<4, 0>>, <<3, 0>>, KING, BLACK, NONE, FALSE, TRUE, FALSE),
      Move(<<0, 1>>, <<1, 0>>, PAWN, WHITE, QUEEN, FALSE, FALSE, TRUE),
      Move(<<4, 7>>, <<4, 6>>, ROOK, BLACK, NONE, FALSE, FALSE, TRUE),
      Move(<<7, 7>>, <<7, 5>>, PAWN, WHITE, NONE, FALSE, FALSE, FALSE),
      Move(<<4, 3>>, <<4, 5>>, PAWN, WHITE, NONE, FALSE, FALSE, FALSE) }

MoveInputs(b) == Range(generate_legal_moves(b, b.current_player)) \cup ExtraMoves

(***************************************************************************)
(* ZobristHash.hash_position (zobrist.py).  The hash is the XOR of one     *)
(* random 64-bit key per occupied square (piece type, colour, square), per *)
(* castling right that is set, for the file of the en-passant target and   *)
(* for Black to move.  The model names a hash by the set of keys XOR-ed    *)
(* into it; two positions have the same hash when these sets are equal.    *)
(***************************************************************************)
hash_position(b) ==
    [piece_keys |-> {<<b.board[sq[2]][sq[1]], sq>> :
                        sq \in {x \in Idx \X Idx : ~empty(b.board[x[2]][x[1]])}},
     castling_keys |-> {right \in {"K", "Q", "k", "q"} : b.castling_rights[right]},
     en_passant_keys |-> IF b.en_passant_target # NoSquare
                         THEN {b.en_passant_target[1]} ELSE {},
     side_to_move_key |-> b.current_player = BLACK]

(***************************************************************************)
(* The table MinimaxEngine keeps (minimax.py 31-32, 120-131, 179-182): an  *)
(* LRUTranspositionTable holding entries TranspositionEntry(depth, score,  *)
(* node_type, best_move).  Neither is defined in transposition.py; they    *)
(* are modelled from their uses and from the specification's data model: a *)
(* map from hash to the entry last put under it (the capacity of 1000000   *)
(* entries is never reached here).                                         *)
(***************************************************************************)
NodeType == {"EXACT", "LOWER_BOUND", "UPPER_BOUND"}

NoMove == Move(NoSquare, NoSquare, NONE, NONE, NONE, FALSE, FALSE, FALSE)

SearchEntry(depth, score, node_type, best_move) ==
    [depth |-> depth, score |-> score, node_type |-> node_type, best_move |-> best_move]

LRUTranspositionTable == [h \in {} |-> SearchEntry(0, Zero, "EXACT", NoMove)]

lru_has(table, board_hash) == board_hash \in DOMAIN table
lru_get(table, board_hash) == table[board_hash]
lru_put(table, board_hash, entry) ==
    [h \in DOMAIN table \cup {board_hash} |-> IF h = board_hash THEN entry ELSE table[h]]

(***************************************************************************)
(* MinimaxEngine (minimax.py): move ordering and capture generation.       *)
(***************************************************************************)
_get_piece_value(piece_type) ==
    CASE piece_type = PAWN -> 100
      [] piece_type = KNIGHT -> 320
      [] piece_type = BISHOP -> 330
      [] piece_type = ROOK -> 500
      [] piece_type = QUEEN -> 900
      [] piece_type = KING -> 20000
      [] OTHER -> 0

\* self.history_table.get(history_key, 0)
history_get(history_table, history_key) ==
    IF history_key \in DOMAIN history_table THEN history_table[history_key] ELSE 0

move_priority(e, b, move) ==
    (IF move.is_capture
     THEN 1000 + _get_piece_value(move.piece_type) - _get_piece_value(move.piece_type)
     ELSE 0)
    + (IF move \in Range(e.killer_moves[b.current_player]) THEN 100 ELSE 0)
    + history_get(e.history_table, <<move.from_square, move.to_square>>)
    + (IF move.promotion # NONE THEN 500 ELSE 0)

SetMax(S) == CHOOSE x \in S : \A y \in S : y <= x

\* sorted(moves, key=move_priority, reverse=True): stable, so moves of equal
\* priority keep the order they were generated in.  priorities is the set of
\* keys still to be placed.
RECURSIVE SortedDescending(_, _, _, _)
SortedDescending(e, b, moves, priorities) ==
    IF priorities = {} THEN <<>>
    ELSE LET top == SetMax(priorities)
         IN  SelectInOrder(LAMBDA m : move_priority(e, b, m) = top, moves)
             \o SortedDescending(e, b, moves, priorities \ {top})

_order_moves(e, moves, b) ==
    SortedDescending(e, b, moves, {move_priority(e, b, moves[i]) : i \in 1..Len(moves)})

_generate_capture_moves(b, color) ==
    SelectInOrder(LAMBDA move : move.is_capture, generate_legal_moves(b, color))

\* The engine as __init__ leaves it (minimax.py 28-44).
MinimaxEngine ==
    [nodes_searched |-> 0,
     transposition_table |-> LRUTranspositionTable,
     killer_moves |-> [c \in Color |-> <<>>],
     history_table |-> [k \in {} |-> 0],
     search_stats |-> [nodes_searched |-> 0, cutoffs |-> 0,
                       transposition_hits |-> 0, quiescence_nodes |-> 0]]

(***************************************************************************)
(* The running search: a stack of frames, one per active call of _minimax  *)
(* or _quiescence_search, and the locals of search itself.                 *)
(***************************************************************************)
Frame(fn, depth, alpha, beta, color) ==
    [fn |-> fn,              \* "_minimax" or "_quiescence_search"
     pc |-> "enter",         \* where the call stands
     depth |-> depth, alpha |-> alpha, beta |-> beta, color |-> color,
     board_hash |-> {},      \* set on entry of _minimax
     moves |-> <<>>,         \* the moves being looped over
     next |-> 1,             \* index of the next move of the loop
     move |-> NoMove,        \* the move made and not yet undone
     best_move |-> NoMove,
     best_score |-> NegInf]

Result(move, score) == [move |-> move, score |-> score]

\* The locals of search before it is called.
SearchIdle ==
    [pc |-> "idle", depth |-> 0, current_depth |-> 0, best_move |-> NoMove,
     best_score |-> NegInf, expired |-> FALSE, completed |-> 0,
     rv |-> Result(NoMove, NegInf)]

EngineIdle == MinimaxEngine
(***************************************************************************)
(* TranspositionTable (transposition.py).  store, retrieve and probe use   *)
(* the board only through get_hash(board); the operators below take that   *)
(* hash key.  Scores are the numbers the caller passes.                    *)
(***************************************************************************)
TranspositionEntry(hash_key, move, score, depth, node_type, age) ==
    [hash_key |-> hash_key, move |-> move, score |-> score, depth |-> depth,
     node_type |-> node_type, age |-> age]

\* None in a slot of the table.
NoEntry == TranspositionEntry(-1, NoMove, 0, -1, "NONE", -1)

\* The pair probe returns: (score, move), or (None, None).
Found(score, move) == [found |-> TRUE, score |-> score, move |-> move]
NoneNone == [found |-> FALSE, score |-> 0, move |-> NoMove]

\* The table as __init__ and clear leave it.
TranspositionTable(size) ==
    [size |-> size, table |-> [index \in 0..(size - 1) |-> NoEntry],
     age |-> 0, hits |-> 0, misses |-> 0]

\* A store that keeps a deeper entry even from an earlier age (mutant of store).
store_depth_only(t, hash_key, move, score, depth, node_type) ==
    LET index == hash_key % t.size
    IN  IF t.table[index] = NoEntry \/ t.table[index].depth <= depth
        THEN [t EXCEPT !.table[index] =
                 TranspositionEntry(hash_key, move, score, depth, node_type, t.age)]
        ELSE t

store(t, hash_key, move, score, depth, node_type) ==
    LET index == hash_key % t.size
        entry == TranspositionEntry(hash_key, move, score, depth, node_type, t.age)
    IN  IF \/ t.table[index] = NoEntry
           \/ t.table[index].depth <= depth
           \/ t.table[index].age < t.age
        THEN [t EXCEPT !.table[index] = entry]
        ELSE t

\* retrieve returns the entry (or NoEntry) and counts a hit or a miss.
retrieve(t, hash_key) ==
    LET entry == t.table[hash_key % t.size]
    IN  IF entry # NoEntry /\ entry.hash_key = hash_key
        THEN [t |-> [t EXCEPT !.hits = @ + 1], entry |-> entry]
        ELSE [t |-> [t EXCEPT !.misses = @ + 1], entry |-> NoEntry]

probe(t, hash_key, depth, alpha, beta) ==
    LET r == retrieve(t, hash_key)
        entry == r.entry
        result ==
            IF entry = NoEntry \/ entry.depth < depth THEN NoneNone
            ELSE IF entry.node_type = "EXACT" THEN Found(entry.score, entry.move)
            ELSE IF entry.node_type = "LOWER_BOUND" /\ entry.score >= beta
            THEN Found(beta, entry.move)
            ELSE IF entry.node_type = "UPPER_BOUND" /\ entry.score <= alpha
            THEN Found(alpha, entry.move)
            ELSE NoneNone
    IN  [t |-> r.t, result |-> result]

store_exact(t, hash_key, move, score, depth) ==
    store(t, hash_key, move, score, depth, "EXACT")
store_lower_bound(t, hash_key, move, score, depth) ==
    store(t, hash_key, move, score, depth, "LOWER_BOUND")
store_upper_bound(t, hash_key, move, score, depth) ==
    store(t, hash_key, move, score, depth, "UPPER_BOUND")

clear(t) == [t EXCEPT !.table = [index \in DOMAIN @ |-> NoEntry],
                      !.age = 0, !.hits = 0, !.misses = 0]

increment_age(t) == [t EXCEPT !.age = @ + 1]

TableIdle == TranspositionTable(TableSize)

(***************************************************************************)
(* Spec: a caller constructs a board and calls make_move and undo_move,    *)
(* observing each call's return value.                                     *)
(***************************************************************************)
BoardFens == {FenSpecial, FenSpecialBlack, FenBackRank, FenPinned, FenDoublePush}

Init ==
    /\ cb \in {ChessBoard(fen) : fen \in BoardFens}
    /\ op = "init"
    /\ arg = NoMove
    /\ ret = TRUE
    /\ pre = cb
    /\ applied = 0
    /\ eng = EngineIdle
    /\ stack = <<>>
    /\ srch = SearchIdle
    /\ tt = TableIdle

MakeMove(move) ==
    /\ LET r == make_move(cb, move)
       IN  /\ Len(r.b.move_history) <= MaxHistory
           /\ Len(r.b.position_history) <= MaxHistory + MaxLeak
           /\ cb' = r.b
           /\ ret' = r.ret
           /\ applied' = IF r.ret THEN applied + 1 ELSE applied
    /\ op' = "make_move"
    /\ arg' = move
    /\ pre' = cb
    /\ UNCHANGED <<eng, stack, srch, tt>>

UndoMove ==
    /\ LET r == undo_move(cb)
       IN  /\ cb' = r.b
           /\ ret' = r.ret
           /\ applied' = IF r.ret THEN applied - 1 ELSE applied
    /\ op' = "undo_move"
    /\ arg' = NoMove
    /\ pre' = cb
    /\ UNCHANGED <<eng, stack, srch, tt>>

Next ==
    \/ \E move \in MoveInputs(cb) : MakeMove(move)
    \/ UndoMove

Spec == Init /\ [][Next]_vars

(***************************************************************************)
(* Claims about make_move and undo_move, checked under Spec.               *)
(***************************************************************************)
Last(s) == s[Len(s)]

\* The fields of a Position that a FEN shows.
SamePosition(b1, b2) ==
    /\ b1.board = b2.board
    /\ b1.current_player = b2.current_player
    /\ b1.castling_rights = b2.castling_rights
    /\ b1.en_passant_target = b2.en_passant_target
    /\ b1.halfmove_clock = b2.halfmove_clock
    /\ b1.fullmove_number = b2.fullmove_number

\* C1: when make_move has returned True, the undo_move that follows it at
\* once returns True and restores squares, side to move, castling rights,
\* en-passant target and both clocks, so the FEN is the one before the move.
C1_UndoRestoresPosition ==
    [][(op = "make_move" /\ ret /\ op' = "undo_move")
         => /\ ret'
            /\ SamePosition(cb', pre)
            /\ _get_fen(cb') = _get_fen(pre)]_vars

\* An accepted en passant capture (the captured pawn is not on the target
\* square) has been undone.
C1_Witness ==
    /\ op = "undo_move" /\ ret
    /\ Last(pre.move_history).is_en_passant
    /\ cb.en_passant_target = Last(pre.move_history).to_square
    /\ cb.board # pre.board

\* The four reasons for which make_move rejects a move without raising.
OffBoard(move) ==
    ~_is_valid_square(move.from_square) \/ ~_is_valid_square(move.to_square)
EmptySource(b, move) ==
    ~OffBoard(move) /\ empty(get_piece(b.board, move.from_square))
WrongSide(b, move) ==
    /\ ~OffBoard(move) /\ ~EmptySource(b, move)
    /\ get_piece(b.board, move.from_square).color # b.current_player
ExposesKing(b, move) ==
    /\ ~OffBoard(move) /\ ~EmptySource(b, move) /\ ~WrongSide(b, move)
    /\ ~(move.is_en_passant /\ RaisesIndexError(en_passant_row(b, move)))
    /\ is_check(apply_move(b, move, get_piece(b.board, move.from_square)),
                b.current_player)

\* C2: a move rejected because a coordinate is off the board, the source
\* square is empty, the piece is not the mover's, or the mover's king would
\* be left in check returns False and leaves every field of the board,
\* both history lists included, as it was before the call.
C2_RejectedMoveLeavesBoard ==
    (op = "make_move"
       /\ (OffBoard(arg) \/ EmptySource(pre, arg) \/ WrongSide(pre, arg)
             \/ ExposesKing(pre, arg)))
      => (~ret /\ cb = pre)

\* A move that was carried out and then reverted because it left the
\* mover's king attacked.
C2_Witness ==
    op = "make_move" /\ ~ret /\ ExposesKing(pre, arg)

\* C10: after any sequence of make_move and undo_move calls, move_history
\* and position_history have the same length, which is the number of
\* accepted moves not yet undone.
C10_HistoryLengths ==
    /\ Len(cb.move_history) = Len(cb.position_history)
    /\ Len(cb.move_history) = applied

(***************************************************************************)
(* SpecPos: a game is played from a starting position with the moves the   *)
(* generator returns for the side to move and make_move accepts (the game  *)
(* loop of main.py).  The claims about positions are checked on every      *)
(* position such a game reaches.                                           *)
(***************************************************************************)
PosFens ==
    {FenStart, FenSpecial, FenSpecialBlack, FenBackRank, FenMated, FenStalemate,
     FenPreStalemate, FenEpOnly, FenPinned, FenDoublePush}

InitPos ==
    /\ cb \in {ChessBoard(fen) : fen \in PosFens}
    /\ op = "init"
    /\ arg = NoMove
    /\ ret = TRUE
    /\ pre = cb
    /\ applied = 0
    /\ eng = EngineIdle
    /\ stack = <<>>
    /\ srch = SearchIdle
    /\ tt = TableIdle

PlayMove(move) ==
    /\ Len(cb.move_history) < MaxPly
    /\ make_move(cb, move).ret
    /\ cb' = make_move(cb, move).b
    /\ ret' = TRUE
    /\ applied' = applied + 1
    /\ op' = "make_move"
    /\ arg' = move
    /\ pre' = cb
    /\ UNCHANGED <<eng, stack, srch, tt>>

NextPos == \E move \in Range(generate_legal_moves(cb, cb.current_player)) : PlayMove(move)

SpecPos == InitPos /\ [][NextPos]_vars

\* C3: no move returned by generate_legal_moves for the side to move leaves
\* that side's own king attacked, so make_move accepts every one of them.
C3_GeneratedMovesAreLegal ==
    \A m \in Range(generate_legal_moves(cb, cb.current_player)) :
        ~ExposesKing(cb, m) /\ make_move(cb, m).ret

\* C6: with the default weights, evaluate(p, c) = -evaluate(p, opposite(c))
\* for every position and colour.
C6_EvaluateAntisymmetric ==
    \A c \in Color : evaluate(cb, c) = Neg(evaluate(cb, Opposite(c)))

\* color has a legal move under the rules of the move generator: a move
\* generate_legal_moves returns that make_move accepts with color to move.
HasGeneratedLegalMove(b, color) ==
    \E m \in Range(generate_legal_moves(b, color)) :
        make_move([b EXCEPT !.current_player = color], m).ret

\* C7: is_checkmate(color) is true exactly when color is in check and has no
\* legal move of the move generator (en passant and promotions included),
\* and is_stalemate(color) exactly when color is not in check and has none.
C7_GameEndExact ==
    \A c \in Color :
        /\ is_checkmate(cb, c) <=> (is_check(cb, c) /\ ~HasGeneratedLegalMove(cb, c))
        /\ is_stalemate(cb, c) <=> (~is_check(cb, c) /\ ~HasGeneratedLegalMove(cb, c))

\* C8: evaluate(p, c) is -infinity when c is checkmated, +infinity when c is
\* not and the opponent is, and 0 when neither is checkmated and c is
\* stalemated; a stalemated c is not checkmated.
C8_EvaluateShortCircuits ==
    \A c \in Color :
        /\ is_checkmate(cb, c) => evaluate(cb, c) = NegInf
        /\ (~is_checkmate(cb, c) /\ is_checkmate(cb, Opposite(c)))
             => evaluate(cb, c) = PosInf
        /\ (~is_checkmate(cb, c) /\ ~is_checkmate(cb, Opposite(c)) /\ is_stalemate(cb, c))
             => evaluate(cb, c) = Zero
        /\ is_stalemate(cb, c) => ~is_checkmate(cb, c)

\* A move has just stalemated the side to move, whose eight weighted terms
\* do not sum to 0.
C8_Witness ==
    /\ op = "make_move"
    /\ is_stalemate(cb, cb.current_player)
    /\ total_score(cb, cb.current_player) # Zero
    /\ evaluate(cb, cb.current_player) = Zero

(***************************************************************************)
(* SpecSearch: MinimaxEngine.search runs on a board, one step per action.  *)
(* A step runs a call from where it stands to its next call or return.     *)
(* The clock is read at the time checks of the code; whether the limit has *)
(* passed is the environment's choice, and once passed it stays passed.    *)
(* After a search that ran to its end the caller may play one of the       *)
(* generated moves on the board and search again with the same engine,     *)
(* whose table still holds the entries of the first search.                *)
(***************************************************************************)
SearchFens ==
    {FenBackRank, FenOnlyMoveMates, FenSpecial, FenSpecialBlack, FenStalemate, FenPinned,
     FenMated, FenBlockedPromotionMate, FenMatingCapture}

InitSearch ==
    /\ cb \in {ChessBoard(fen) : fen \in SearchFens}
    /\ op = "init"
    /\ arg = NoMove
    /\ ret = TRUE
    /\ pre = cb
    /\ applied = 0
    /\ eng = MinimaxEngine
    /\ stack = <<>>
    /\ srch = SearchIdle
    /\ tt = TableIdle

Top == stack[Len(stack)]
Pop == SubSeq(stack, 1, Len(stack) - 1)
SetTop(frame) == [stack EXCEPT ![Len(stack)] = frame]
Running(fn, pc) == stack # <<>> /\ Top.fn = fn /\ Top.pc = pc

\* time.time() - start_time > self.time_limit, as the clock may answer.
ClockReadings == IF srch.expired THEN {TRUE} ELSE {FALSE, TRUE}

\* The index of the first move from index k on that make_move accepts, or 0.
NextAccepted(b, moves, k) ==
    IF \E i \in k..Len(moves) : make_move(b, moves[i]).ret
    THEN CHOOSE i \in k..Len(moves) :
            /\ make_move(b, moves[i]).ret
            /\ \A n \in k..(i - 1) : ~make_move(b, moves[n]).ret
    ELSE 0

\* return value: the frame is popped and the caller finds the value in rv.
Return(value) ==
    /\ stack' = Pop
    /\ srch' = [srch EXCEPT !.rv = value]

\* A search that, when the time runs out, takes over what the interrupted
\* iteration had found so far at the root.
RaiseTimeoutError_keeping_partial_result ==
    /\ stack' = <<>>
    /\ srch' = [srch EXCEPT
                  !.pc = "done", !.expired = TRUE,
                  !.best_move = IF stack[1].best_move # NoMove
                                THEN stack[1].best_move ELSE @,
                  !.best_score = IF stack[1].best_move # NoMove
                                 THEN stack[1].best_score ELSE @]

\* raise TimeoutError: no frame of _minimax or _quiescence_search catches it,
\* search does (minimax.py 83-84), leaves its loop and returns.
RaiseTimeoutError ==
    /\ stack' = <<>>
    /\ srch' = [srch EXCEPT !.pc = "done", !.expired = TRUE]

\* search, lines 57-66.
SearchCall(depth) ==
    /\ srch.pc = "idle"
    /\ applied = 0 \/ depth <= MaxNextDepth
    /\ srch' = [srch EXCEPT !.pc = "loop", !.depth = depth, !.current_depth = 1,
                            !.best_move = NoMove, !.best_score = NegInf]
    /\ eng' = [eng EXCEPT !.nodes_searched = 0,
                          !.search_stats = [key \in DOMAIN @ |-> 0]]
    /\ op' = "search"
    /\ pre' = cb
    /\ UNCHANGED <<cb, arg, ret, applied, stack, tt>>

\* search, lines 69-77: the head of the iterative-deepening loop.
SearchLoop(expired) ==
    /\ srch.pc = "loop"
    /\ IF srch.current_depth > srch.depth \/ expired
       THEN /\ srch' = [srch EXCEPT !.pc = "done",
                                    !.expired = (srch.current_depth <= srch.depth) \/ @]
            /\ stack' = stack
       ELSE /\ srch' = [srch EXCEPT !.pc = "wait"]
            /\ stack' = <<Frame("_minimax", srch.current_depth, NegInf, PosInf,
                                cb.current_player)>>
    /\ UNCHANGED <<cb, op, arg, ret, pre, applied, eng, tt>>

\* search, lines 79-81: _minimax has returned.
SearchAfter ==
    /\ srch.pc = "wait" /\ stack = <<>>
    /\ srch' = [srch EXCEPT
                  !.pc = "loop",
                  !.best_move = IF srch.rv.move # NoMove THEN srch.rv.move ELSE @,
                  !.best_score = IF srch.rv.move # NoMove THEN srch.rv.score ELSE @,
                  !.completed = srch.current_depth,
                  !.current_depth = @ + 1]
    /\ UNCHANGED <<cb, op, arg, ret, pre, applied, eng, stack, tt>>

\* _minimax, lines 108-143: from entry to the first move of the loop.
MinimaxEnter(expired) ==
    /\ Running("_minimax", "enter")
    /\ IF expired
       THEN RaiseTimeoutError /\ eng' = eng
       ELSE LET frame == Top
                board_hash == hash_position(cb)
                table == eng.transposition_table
                counted == [eng EXCEPT !.nodes_searched = @ + 1]
                moves == generate_legal_moves(cb, frame.color)
                maximizing == frame.color = cb.current_player
            IN  IF frame.depth = 0
                THEN /\ eng' = counted
                     /\ srch' = srch
                     /\ stack' = Append(
                            SetTop([frame EXCEPT !.pc = "leaf", !.board_hash = board_hash]),
                            Frame("_quiescence_search", 0, frame.alpha, frame.beta,
                                  frame.color))
                ELSE IF lru_has(table, board_hash)
                        /\ lru_get(table, board_hash).depth >= frame.depth
                THEN /\ eng' = [counted EXCEPT !.search_stats.transposition_hits = @ + 1]
                     /\ Return(Result(lru_get(table, board_hash).best_move,
                                      lru_get(table, board_hash).score))
                ELSE IF moves = <<>>
                THEN /\ eng' = counted
                     /\ Return(Result(NoMove,
                                      IF is_check(cb, frame.color)
                                      THEN IF maximizing THEN NegInf ELSE PosInf
                                      ELSE Zero))
                ELSE /\ eng' = counted
                     /\ srch' = srch
                     /\ stack' = SetTop([frame EXCEPT
                            !.pc = "loop",
                            !.board_hash = board_hash,
                            !.moves = _order_moves(eng, moves, cb),
                            !.best_move = NoMove,
                            !.best_score = IF maximizing THEN NegInf ELSE PosInf])
    /\ UNCHANGED <<cb, op, arg, ret, pre, applied, tt>>

\* _minimax, lines 120-124: the quiescence search of a leaf has returned.
MinimaxLeaf ==
    /\ Running("_minimax", "leaf")
    /\ eng' = [eng EXCEPT !.transposition_table =
                  lru_put(@, Top.board_hash, SearchEntry(0, srch.rv.score, "EXACT", NoMove))]
    /\ Return(Result(NoMove, srch.rv.score))
    /\ UNCHANGED <<cb, op, arg, ret, pre, applied, tt>>

\* _minimax, lines 145-155 and 176-184: the loop makes the next move that
\* make_move accepts and searches it, or ends, stores the node and returns.
MinimaxLoop ==
    /\ Running("_minimax", "loop")
    /\ LET frame == Top
           k == NextAccepted(cb, frame.moves, frame.next)
       IN  IF k = 0
           THEN /\ eng' = [eng EXCEPT !.transposition_table =
                             lru_put(@, frame.board_hash,
                                     SearchEntry(frame.depth, frame.best_score, "EXACT",
                                                 frame.best_move))]
                /\ Return(Result(frame.best_move, frame.best_score))
                /\ cb' = cb
           ELSE /\ cb' = make_move(cb, frame.moves[k]).b
                /\ stack' = Append(
                       SetTop([frame EXCEPT !.pc = "after", !.move = frame.moves[k],
                                            !.next = k + 1]),
                       Frame("_minimax", frame.depth - 1, frame.alpha, frame.beta,
                             Opposite(frame.color)))
                /\ UNCHANGED <<eng, srch>>
    /\ UNCHANGED <<op, arg, ret, pre, applied, tt>>

\* _minimax, lines 157-174: the recursive call has returned.
MinimaxAfter ==
    /\ Running("_minimax", "after")
    /\ LET frame == Top
           score == srch.rv.score
           undone == undo_move(cb).b
           maximizing == frame.color = undone.current_player
           better == IF maximizing THEN Lt(frame.best_score, score)
                     ELSE Lt(score, frame.best_score)
           alpha == IF maximizing /\ better THEN ScoreMax(frame.alpha, score)
                    ELSE frame.alpha
           beta == IF ~maximizing /\ better THEN ScoreMin(frame.beta, score)
                   ELSE frame.beta
           cutoff == Le(beta, alpha)
       IN  /\ cb' = undone
           /\ stack' = SetTop([frame EXCEPT
                  !.pc = "loop",
                  !.move = NoMove,
                  !.best_score = IF better THEN score ELSE @,
                  !.best_move = IF better THEN frame.move ELSE @,
                  !.alpha = alpha,
                  !.beta = beta,
                  !.next = IF cutoff THEN Len(frame.moves) + 1 ELSE @])
           /\ eng' = IF cutoff THEN [eng EXCEPT !.search_stats.cutoffs = @ + 1] ELSE eng
    /\ UNCHANGED <<op, arg, ret, pre, applied, srch, tt>>

\* _quiescence_search, lines 200-216: from entry to the first capture.
QuiescenceEnter(expired) ==
    /\ Running("_quiescence_search", "enter")
    /\ eng' = [eng EXCEPT !.search_stats.quiescence_nodes = @ + 1]
    /\ IF expired
       THEN RaiseTimeoutError
       ELSE LET frame == Top
                static_eval == evaluate(cb, frame.color)
            IN  IF Le(frame.beta, static_eval)
                THEN Return(Result(NoMove, frame.beta))
                ELSE /\ srch' = srch
                     /\ stack' = SetTop([frame EXCEPT
                            !.pc = "loop",
                            !.alpha = ScoreMax(frame.alpha, static_eval),
                            !.moves = _generate_capture_moves(cb, frame.color)])
    /\ UNCHANGED <<cb, op, arg, ret, pre, applied, tt>>

\* _quiescence_search, lines 218-223 and 233: the next accepted capture is
\* made and searched, or the loop ends and alpha is returned.
QuiescenceLoop ==
    /\ Running("_quiescence_search", "loop")
    /\ LET frame == Top
           k == NextAccepted(cb, frame.moves, frame.next)
       IN  IF k = 0
           THEN Return(Result(NoMove, frame.alpha)) /\ cb' = cb
           ELSE /\ cb' = make_move(cb, frame.moves[k]).b
                /\ stack' = Append(
                       SetTop([frame EXCEPT !.pc = "after", !.move = frame.moves[k],
                                            !.next = k + 1]),
                       Frame("_quiescence_search", 0, Neg(frame.beta), Neg(frame.alpha),
                             Opposite(frame.color)))
                /\ srch' = srch
    /\ UNCHANGED <<op, arg, ret, pre, applied, eng, tt>>

\* _quiescence_search, lines 222-231: the recursive call has returned.
QuiescenceAfter ==
    /\ Running("_quiescence_search", "after")
    /\ LET frame == Top
           score == Neg(srch.rv.score)
       IN  /\ cb' = undo_move(cb).b
           /\ IF Le(frame.beta, score)
              THEN Return(Result(NoMove, frame.beta))
              ELSE /\ srch' = srch
                   /\ stack' = SetTop([frame EXCEPT
                          !.pc = "loop", !.move = NoMove,
                          !.alpha = ScoreMax(frame.alpha, score)])
    /\ UNCHANGED <<op, arg, ret, pre, applied, eng, tt>>

\* The caller of search: board.make_move(move) with a generated move after
\* a search that completed, before the next call of search.
CallerMove(move) ==
    /\ srch.pc = "done" /\ ~srch.expired
    /\ applied = 0
    /\ make_move(cb, move).ret
    /\ cb' = make_move(cb, move).b
    /\ op' = "make_move"
    /\ arg' = move
    /\ ret' = TRUE
    /\ pre' = cb
    /\ applied' = 1
    /\ srch' = [srch EXCEPT !.pc = "idle"]
    /\ UNCHANGED <<eng, stack, tt>>

NextSearch ==
    \/ \E depth \in 1..MaxDepth : SearchCall(depth)
    \/ \E move \in Range(generate_legal_moves(cb, cb.current_player)) : CallerMove(move)
    \/ \E expired \in ClockReadings : SearchLoop(expired)
    \/ SearchAfter
    \/ \E expired \in ClockReadings : MinimaxEnter(expired)
    \/ MinimaxLeaf
    \/ MinimaxLoop
    \/ MinimaxAfter
    \/ \E expired \in ClockReadings : QuiescenceEnter(expired)
    \/ QuiescenceLoop
    \/ QuiescenceAfter

SpecSearch == InitSearch /\ [][NextSearch]_vars

\* The search has returned: its result is (best_move, best_score).
SearchReturned == srch.pc = "done"

\* C4: when search returns, after completing every depth or after the time
\* limit cut it short at any node, the board is in the state it was in when
\* search was called: squares, side to move, castling rights, en-passant
\* target, clocks and the lengths of both histories.
C4_SearchLeavesBoard ==
    SearchReturned =>
        /\ SamePosition(cb, pre)
        /\ Len(cb.move_history) = Len(pre.move_history)
        /\ Len(cb.position_history) = Len(pre.position_history)

\* C5: when the side to move has a legal move and at least depth 1 was
\* completed, search returns a move, one that generate_legal_moves returns
\* for the side to move and that make_move accepts on the searched position.
C5_SearchReturnsLegalMove ==
    (SearchReturned /\ srch.completed >= 1
       /\ HasGeneratedLegalMove(pre, pre.current_player))
      => /\ srch.best_move # NoMove
         /\ srch.best_move \in Range(generate_legal_moves(pre, pre.current_player))
         /\ make_move(pre, srch.best_move).ret

(***************************************************************************)
(* SpecTT: a caller stores into, probes, ages and clears one               *)
(* TranspositionTable.  arg is the argument list of the last store or      *)
(* probe (for a probe, with the name of the call made before it), ret the  *)
(* pair the last probe returned, pre the table as it was when the last     *)
(* call was made.                                                          *)
(***************************************************************************)
HashKeys == 0..MaxKey
TTDepths == 1..MaxTTDepth
TTScores == {-1, 1}
TTMoves == {NoMove, Move(<<1, 6>>, <<1, 4>>, PAWN, WHITE, NONE, FALSE, FALSE, FALSE)}
NoArgs == [hash_key |-> -1, move |-> NoMove, score |-> 0, depth |-> 0,
           alpha |-> 0, beta |-> 0, after |-> "none"]
NoResult == NoneNone

InitTT ==
    /\ tt = TranspositionTable(TableSize)
    /\ op = "init"
    /\ arg = NoArgs
    /\ ret = NoResult
    /\ pre = tt
    /\ cb = ChessBoard(FenStart)
    /\ applied = 0
    /\ eng = EngineIdle
    /\ stack = <<>>
    /\ srch = SearchIdle

TTCall(name, args, table, result) ==
    /\ op' = name
    /\ arg' = args
    /\ pre' = tt
    /\ tt' = table
    /\ ret' = result
    /\ UNCHANGED <<cb, applied, eng, stack, srch>>

StoreExact(hash_key, move, score, depth) ==
    TTCall("store_exact",
           [NoArgs EXCEPT !.hash_key = hash_key, !.move = move, !.score = score,
                          !.depth = depth],
           store_exact(tt, hash_key, move, score, depth), NoResult)

StoreLowerBound(hash_key, move, score, depth) ==
    TTCall("store_lower_bound",
           [NoArgs EXCEPT !.hash_key = hash_key, !.move = move, !.score = score,
                          !.depth = depth],
           store_lower_bound(tt, hash_key, move, score, depth), NoResult)

StoreUpperBound(hash_key, move, score, depth) ==
    TTCall("store_upper_bound",
           [NoArgs EXCEPT !.hash_key = hash_key, !.move = move, !.score = score,
                          !.depth = depth],
           store_upper_bound(tt, hash_key, move, score, depth), NoResult)

Probe(hash_key, depth, alpha, beta) ==
    /\ tt.hits + tt.misses < MaxProbes
    /\ LET r == probe(tt, hash_key, depth, alpha, beta)
       IN  TTCall("probe",
                  [NoArgs EXCEPT !.hash_key = hash_key, !.depth = depth,
                                 !.alpha = alpha, !.beta = beta, !.after = op],
                  r.t, r.result)

IncrementAge ==
    /\ tt.age < MaxAge
    /\ TTCall("increment_age", NoArgs, increment_age(tt), NoResult)

Clear == TTCall("clear", NoArgs, clear(tt), NoResult)

NextTT ==
    \/ \E hash_key \in HashKeys, move \in TTMoves, score \in TTScores, depth \in TTDepths :
          \/ StoreExact(hash_key, move, score, depth)
          \/ StoreLowerBound(hash_key, move, score, depth)
          \/ StoreUpperBound(hash_key, move, score, depth)
    \/ \E hash_key \in HashKeys, depth \in TTDepths, alpha \in TTScores, beta \in TTScores :
          Probe(hash_key, depth, alpha, beta)
    \/ IncrementAge
    \/ Clear

SpecTT == InitTT /\ [][NextTT]_vars

\* A probe of the position just stored by store_exact, at a depth no greater
\* than the stored one.
ProbeAfterStoreExact ==
    /\ op = "store_exact" /\ op' = "probe"
    /\ arg'.hash_key = arg.hash_key
    /\ arg'.depth <= arg.depth

\* The slot of the position was free to take the entry: it was empty, or its
\* entry was no deeper than the stored depth, or it was of an earlier age.
SlotReplaceable(t, hash_key, depth) ==
    LET existing == t.table[hash_key % t.size]
    IN  existing = NoEntry \/ existing.depth <= depth \/ existing.age < t.age

\* C9 as stated: after store_exact(board, move, score, D) on a table in any
\* state, probe(board, d, alpha, beta) with d <= D returns the stored score
\* and move for any window.
C9_ProbeReturnsStored ==
    [][ProbeAfterStoreExact => ret' = Found(arg.score, arg.move)]_vars

\* C9 amended: the same, for a table whose slot for the position is empty or
\* holds an entry of depth <= D or an entry stored at an earlier age.
C9_ProbeReturnsStoredWhenReplaced ==
    [][(ProbeAfterStoreExact /\ SlotReplaceable(pre, arg.hash_key, arg.depth))
         => ret' = Found(arg.score, arg.move)]_vars

\* A probe made right after a store_exact at a later age has returned the
\* score and the move of the entry that call stored.
C9_Witness ==
    /\ op = "probe" /\ arg.after = "store_exact"
    /\ LET entry == pre.table[arg.hash_key % pre.size]
       IN  /\ entry.hash_key = arg.hash_key
           /\ entry.node_type = "EXACT"
           /\ entry.age = 1
           /\ entry.depth >= arg.depth
           /\ entry.move # NoMove
           /\ ret = Found(entry.score, entry.move)

(***************************************************************************)
(* Claims about the Zobrist hash, checked under Spec.                      *)
(***************************************************************************)
\* C11: hash_position gives the same value for a position whose hashed
\* fields have not changed (a call that leaves the position as it was leaves
\* the hash as it was), and after an accepted make_move the undo_move that
\* follows restores the hash the position had before the move.
C11_HashStable ==
    [][/\ SamePosition(cb', cb) => hash_position(cb') = hash_position(cb)
       /\ (op = "make_move" /\ ret /\ op' = "undo_move")
            => hash_position(cb') = hash_position(pre)]_vars

\* An accepted move that changed the hash (here by clearing a castling
\* right) has been undone, and the hash is the one before the move.
C11_Witness ==
    /\ op = "undo_move" /\ ret
    /\ hash_position(pre) # hash_position(cb)
    /\ hash_position(pre).castling_keys # hash_position(cb).castling_keys
    /\ hash_position(cb) = hash_position(Last(pre.position_history)
                                           @@ [move_history |-> <<>>, position_history |-> <<>>])

(***************************************************************************)
(* SpecFen: a caller constructs a board from a FEN string and, when the    *)
(* constructor has not raised, asks the board for its FEN.  A FEN is built *)
(* from its six fields; the malformed strings are listed one by one.       *)
(***************************************************************************)
\* The fields joined by single blanks.
FenJoin(parts) ==
    LET acc[i \in 1..Len(parts)] ==
            IF i = 1 THEN parts[1] ELSE acc[i - 1] \o <<" ">> \o parts[i]
    IN  acc[Len(parts)]

FenPlacements ==
    {<<"r", "n", "b", "q", "k", "b", "n", "r", "/", "p", "p", "p", "p", "p", "p", "p", "p", "/", "8", "/", "8", "/", "8", "/", "8", "/", "P", "P", "P", "P", "P", "P", "P", "P", "/", "R", "N", "B", "Q", "K", "B", "N", "R">>,
     <<"4", "k", "3", "/", "8", "/", "8", "/", "8", "/", "8", "/", "8", "/", "8", "/", "4", "K", "3">>,
     <<"r", "3", "k", "2", "r", "/", "p", "p", "1", "p", "1", "p", "p", "p", "/", "8", "/", "2", "p", "P", "p", "3", "/", "4", "P", "3", "/", "Q", "7", "/", "P", "P", "P", "2", "P", "P", "P", "/", "R", "3", "K", "1", "N", "R">>}

FenSides ==
    {<<"w">>,
     <<"b">>}

\* Castling letters in the order KQkq, or "-".
FenCastlings ==
    {<<"K", "Q", "k", "q">>,
     <<"-">>,
     <<"K", "q">>,
     <<"Q", "k">>}

FenEnPassants ==
    {<<"-">>,
     <<"e", "3">>,
     <<"c", "6">>,
     <<"h", "6">>}

FenHalfmoves ==
    {<<"0">>,
     <<"7">>,
     <<"1", "2">>}

FenFullmoves ==
    {<<"1">>,
     <<"1", "0">>,
     <<"1", "2", "3">>}

\* Well-formed FEN strings in canonical form.
CanonicalFens ==
    {FenJoin(<<p, s, c, e, h, f>>) :
        p \in FenPlacements, s \in FenSides, c \in FenCastlings,
        e \in FenEnPassants, h \in FenHalfmoves, f \in FenFullmoves}

\* Strings that do not split into exactly 6 fields.
WrongFieldCountFens ==
    {<<"r", "n", "b", "q", "k", "b", "n", "r", "/", "p", "p", "p", "p", "p", "p", "p", "p", "/", "8", "/", "8", "/", "8", "/", "8", "/", "P", "P", "P", "P", "P", "P", "P", "P", "/", "R", "N", "B", "Q", "K", "B", "N", "R">>,
     <<"r", "n", "b", "q", "k", "b", "n", "r", "/", "p", "p", "p", "p", "p", "p", "p", "p", "/", "8", "/", "8", "/", "8", "/", "8", "/", "P", "P", "P", "P", "P", "P", "P", "P", "/", "R", "N", "B", "Q", "K", "B", "N", "R", " ", "w", " ", "K", "Q", "k", "q", " ", "-", " ", "0">>,
     <<"r", "n", "b", "q", "k", "b", "n", "r", "/", "p", "p", "p", "p", "p", "p", "p", "p", "/", "8", "/", "8", "/", "8", "/", "8", "/", "P", "P", "P", "P", "P", "P", "P", "P", "/", "R", "N", "B", "Q", "K", "B", "N", "R", " ", "w", " ", "K", "Q", "k", "q", " ", "-", " ", "0", " ", "1", " ", "1">>}

\* A side-to-move field other than "w" or "b".
WrongSideFens ==
    {<<"r", "n", "b", "q", "k", "b", "n", "r", "/", "p", "p", "p", "p", "p", "p", "p", "p", "/", "8", "/", "8", "/", "8", "/", "8", "/", "P", "P", "P", "P", "P", "P", "P", "P", "/", "R", "N", "B", "Q", "K", "B", "N", "R", " ", "x", " ", "K", "Q", "k", "q", " ", "-", " ", "0", " ", "1">>,
     <<"r", "n", "b", "q", "k", "b", "n", "r", "/", "p", "p", "p", "p", "p", "p", "p", "p", "/", "8", "/", "8", "/", "8", "/", "8", "/", "P", "P", "P", "P", "P", "P", "P", "P", "/", "R", "N", "B", "Q", "K", "B", "N", "R", " ", "W", " ", "K", "Q", "k", "q", " ", "-", " ", "0", " ", "1">>,
     <<"r", "n", "b", "q", "k", "b", "n", "r", "/", "p", "p", "p", "p", "p", "p", "p", "p", "/", "8", "/", "8", "/", "8", "/", "8", "/", "P", "P", "P", "P", "P", "P", "P", "P", "/", "R", "N", "B", "Q", "K", "B", "N", "R", " ", "-", " ", "K", "Q", "k", "q", " ", "-", " ", "0", " ", "1">>}

\* An en-passant field that names a square outside files a-h, ranks 1-8.
OffBoardEnPassantFens ==
    {<<"r", "n", "b", "q", "k", "b", "n", "r", "/", "p", "p", "p", "p", "p", "p", "p", "p", "/", "8", "/", "8", "/", "8", "/", "8", "/", "P", "P", "P", "P", "P", "P", "P", "P", "/", "R", "N", "B", "Q", "K", "B", "N", "R", " ", "w", " ", "K", "Q", "k", "q", " ", "i", "3", " ", "0", " ", "1">>,
     <<"r", "n", "b", "q", "k", "b", "n", "r", "/", "p", "p", "p", "p", "p", "p", "p", "p", "/", "8", "/", "8", "/", "8", "/", "8", "/", "P", "P", "P", "P", "P", "P", "P", "P", "/", "R", "N", "B", "Q", "K", "B", "N", "R", " ", "w", " ", "K", "Q", "k", "q", " ", "e", "9", " ", "0", " ", "1">>,
     <<"r", "n", "b", "q", "k", "b", "n", "r", "/", "p", "p", "p", "p", "p", "p", "p", "p", "/", "8", "/", "8", "/", "8", "/", "8", "/", "P", "P", "P", "P", "P", "P", "P", "P", "/", "R", "N", "B", "Q", "K", "B", "N", "R", " ", "b", " ", "K", "Q", "k", "q", " ", "e", "0", " ", "0", " ", "1">>,
     <<"r", "n", "b", "q", "k", "b", "n", "r", "/", "p", "p", "p", "p", "p", "p", "p", "p", "/", "8", "/", "8", "/", "8", "/", "8", "/", "P", "P", "P", "P", "P", "P", "P", "P", "/", "R", "N", "B", "Q", "K", "B", "N", "R", " ", "b", " ", "K", "Q", "k", "q", " ", "z", "9", " ", "0", " ", "1">>}

\* A piece-placement field that puts a piece on a ninth file or rank.
OffBoardPlacementFens ==
    {<<"r", "n", "b", "q", "k", "b", "n", "r", "r", "/", "p", "p", "p", "p", "p", "p", "p", "p", "/", "8", "/", "8", "/", "8", "/", "8", "/", "P", "P", "P", "P", "P", "P", "P", "P", "/", "R", "N", "B", "Q", "K", "B", "N", "R", " ", "w", " ", "K", "Q", "k", "q", " ", "-", " ", "0", " ", "1">>,
     <<"4", "k", "3", "/", "8", "/", "8", "/", "8", "/", "8", "/", "8", "/", "8", "/", "8", "/", "4", "K", "3", " ", "w", " ", "-", " ", "-", " ", "0", " ", "1">>,
     <<"4", "k", "3", "/", "8", "/", "8", "/", "8", "/", "8", "/", "8", "/", "8", "/", "7", "P", "K", " ", "w", " ", "-", " ", "-", " ", "0", " ", "1">>}

MalformedFens ==
    WrongFieldCountFens \cup WrongSideFens \cup OffBoardEnPassantFens
        \cup OffBoardPlacementFens

FenInputs == CanonicalFens \cup MalformedFens

\* What a call hands back: whether it raised, and the FEN text of _get_fen.
FenResult(raised, fen) == [raised |-> raised, fen |-> fen]

InitFen ==
    /\ cb = ChessBoard(FenStart)
    /\ op = "init"
    /\ arg \in FenInputs
    /\ ret = FenResult(FALSE, <<>>)
    /\ pre = cb
    /\ applied = 0
    /\ eng = EngineIdle
    /\ stack = <<>>
    /\ srch = SearchIdle
    /\ tt = TableIdle

\* board = ChessBoard(arg): the board exists only if __init__ did not raise.
Construct ==
    /\ op = "init"
    /\ op' = "ChessBoard"
    /\ IF _load_from_fen_raises(arg)
       THEN cb' = cb /\ ret' = FenResult(TRUE, <<>>)
       ELSE cb' = ChessBoard(arg) /\ ret' = FenResult(FALSE, <<>>)
    /\ UNCHANGED <<arg, pre, applied, eng, stack, srch, tt>>

\* board._get_fen()
GetFen ==
    /\ op = "ChessBoard" /\ ~ret.raised
    /\ op' = "_get_fen"
    /\ ret' = FenResult(FALSE, _get_fen(cb))
    /\ UNCHANGED <<cb, arg, pre, applied, eng, stack, srch, tt>>

NextFen ==
    \/ Construct
    \/ GetFen

SpecFen == InitFen /\ [][NextFen]_vars

\* C12: for every well-formed FEN string s in canonical form,
\* ChessBoard(s)._get_fen() is s.
C12_FenRoundTrip ==
    (op = "_get_fen" /\ arg \in CanonicalFens) => ret.fen = arg

\* A round trip that exercises an en-passant square, a partial castling
\* field, clocks of more than one digit and ranks ending in empty squares.
C12_Witness ==
    /\ op = "_get_fen" /\ arg \in CanonicalFens /\ ret.fen = arg
    /\ cb.en_passant_target # NoSquare
    /\ cb.castling_rights.K /\ ~cb.castling_rights.Q
    /\ cb.halfmove_clock >= 10 /\ cb.fullmove_number >= 100
    /\ \E rank \in Idx : ~empty(cb.board[rank][0]) /\ empty(cb.board[rank][7])

\* C13: constructing a ChessBoard from a string that does not split into
\* exactly 6 fields, whose side-to-move field is neither "w" nor "b", or
\* whose en-passant or piece-placement field addresses a square outside
\* files a-h, ranks 1-8 raises an error: no board is constructed from it.
C13_MalformedFenRejected ==
    (op = "ChessBoard" /\ arg \in MalformedFens) => ret.raised

(***************************************************************************)
(* Claims about the fields make_move updates, checked under Spec.          *)
(***************************************************************************)
\* The move takes a pawn of position b two ranks along its file.
TwoSquarePawnAdvance(b, move) ==
    /\ get_piece(b.board, move.from_square).piece_type = PAWN
    /\ move.to_square[1] = move.from_square[1]
    /\ Abs(move.to_square[2] - move.from_square[2]) = 2

\* The square between the two ends of such a move.
PassedOver(move) ==
    <<move.from_square[1], (move.from_square[2] + move.to_square[2]) \div 2>>

\* After the accepted move arg from position pre, the en-passant target is
\* the passed-over square of a two-square pawn advance and None otherwise.
EnPassantTargetFollowsMove ==
    cb.en_passant_target =
        IF TwoSquarePawnAdvance(pre, arg) THEN PassedOver(arg) ELSE NoSquare

\* C14 as stated: after every accepted make_move, en_passant_target is set
\* only if the move was a two-square pawn advance, to the square the pawn
\* passed over, and is None after any other accepted move.
C14_EnPassantTargetAfterAcceptedMove ==
    (op = "make_move" /\ ret) => EnPassantTargetFollowsMove

\* C14 for the moves the generator returns: after an accepted make_move of
\* a move of generate_legal_moves(side to move), en_passant_target is the
\* passed-over square if the move was a two-square pawn advance and None
\* otherwise.
C14_EnPassantTargetAfterGeneratedMove ==
    (op = "make_move" /\ ret
       /\ arg \in Range(generate_legal_moves(pre, pre.current_player)))
      => EnPassantTargetFollowsMove

\* A generated two-square advance has been accepted and has set the target;
\* the position before it had none.
C14_Witness ==
    /\ op = "make_move" /\ ret
    /\ arg \in Range(generate_legal_moves(pre, pre.current_player))
    /\ TwoSquarePawnAdvance(pre, arg)
    /\ pre.en_passant_target = NoSquare
    /\ cb.en_passant_target = PassedOver(arg)

\* The position the board was constructed with: the first snapshot pushed
\* on position_history is taken before any move has changed the board, and
\* an undo that empties the list restores that snapshot.
StartPosition ==
    IF cb.position_history = <<>> THEN cb ELSE cb.position_history[1]

\* The number of Black moves among n alternating moves that side s0 begins.
BlackMoves(s0, n) == IF s0 = BLACK THEN (n + 1) \div 2 ELSE n \div 2

\* C15: every accepted make_move flips current_player once and adds 1 to
\* fullmove_number exactly when the mover was Black; so with n accepted
\* moves not yet undone, from a position with side s0 and fullmove f0, the
\* side to move is s0 for even n and the other colour for odd n, and
\* fullmove_number is f0 plus the number of Black moves among them.
C15_TurnAccounting ==
    /\ [][(op' = "make_move" /\ ret')
            => /\ cb'.current_player = Opposite(cb.current_player)
               /\ cb'.fullmove_number =
                      cb.fullmove_number + (IF cb.current_player = BLACK THEN 1 ELSE 0)]_vars
    /\ [](/\ cb.current_player =
               (IF applied % 2 = 0 THEN StartPosition.current_player
                ELSE Opposite(StartPosition.current_player))
          /\ cb.fullmove_number =
               StartPosition.fullmove_number
                 + BlackMoves(StartPosition.current_player, applied))

\* C16: undo_move called when no accepted move remains to be undone
\* returns False and leaves every field of the board as it was.
C16_UndoWithoutMove ==
    [][(op' = "undo_move" /\ applied = 0) => (~ret' /\ cb' = cb)]_vars

\* Such a call has returned False on a board that a raising make_move had
\* left with a snapshot on position_history.
C16_Witness ==
    /\ op = "undo_move" /\ ~ret /\ applied = 0
    /\ cb = pre
    /\ cb.move_history = <<>> /\ cb.position_history # <<>>

(***************************************************************************)
(* Claims about the search on terminal positions and under the time limit, *)
(* checked under SpecSearch.                                               *)
(***************************************************************************)
\* color, to move in b, is checkmated: its king is attacked and no move of
\* the rules takes it out of check.  The moves of the rules are the pushes
\* and captures of the pawns and the moves of the pieces as the board's own
\* generators list them (the promotion piece does not change which squares
\* the move vacates and occupies), and the en passant captures.
Checkmated(b, color) ==
    /\ b.current_player = color
    /\ is_check(b, color)
    /\ ~has_legal_move(b, color)
    /\ ~\E m \in Range(generate_legal_moves(b, color)) :
            m.is_en_passant /\ make_move(b, m).ret

\* C17: in every position in which the side to move is checkmated,
\* is_checkmate(side to move) is true, and search on that position returns
\* no move, at every depth and whether or not the time limit cut it short.
C17_MatedSearchReturnsNoMove ==
    Checkmated(pre, pre.current_player)
      => /\ is_checkmate(pre, pre.current_player)
         /\ SearchReturned => srch.best_move = NoMove

\* The (move, score) that search will return if it leaves its loop now.
SearchResult == Result(srch.best_move, srch.best_score)

\* The root call of _minimax of the current iteration has returned to search.
IterationCompleted == srch.pc = "wait" /\ stack = <<>>

\* C18: iterative deepening keeps the last completed result.  The result of
\* search changes only when an iteration completes with a move, and then it
\* becomes the (move, score) of that iteration; no step of an unfinished
\* iteration and no expiry of the time limit changes it, so a search cut
\* short before or during iteration k returns the result of the last
\* iteration j < k that completed with a move.  A search in which no
\* iteration completed returns no move.
C18_KeepsLastCompletedResult ==
    /\ [][IF srch.pc = "idle"
          THEN SearchResult' = Result(NoMove, NegInf)
          ELSE IF IterationCompleted /\ srch.rv.move # NoMove
          THEN SearchResult' = srch.rv
          ELSE SearchResult' = SearchResult]_vars
    /\ []((SearchReturned /\ srch.completed = 0) => srch.best_move = NoMove)

\* The time limit expired during the second iteration, deep enough for the
\* board to be still changed, after the first iteration completed with a
\* move: search returns that move.
C18_Witness ==
    /\ SearchReturned
    /\ srch.expired
    /\ srch.completed = 1
    /\ srch.current_depth = 2
    /\ srch.best_move # NoMove
    /\ cb # pre

(***************************************************************************)
(* Claims about the moves the generator returns, checked under SpecPos.    *)
(***************************************************************************)
\* A piece of colour by attacks the square, tested as is_check tests the
\* attacks on the king's square.
SquareAttacked(b, square, by) ==
    \E rank \in Idx, file \in Idx :
        /\ ~empty(b.board[rank][file])
        /\ b.board[rank][file].color = by
        /\ _can_piece_attack(b.board, b.board[rank][file].piece_type, <<file, rank>>, square)

\* The home rank of a colour, and the right, rook file, squares between king
\* and rook and squares the king crosses and lands on, for castling on the
\* king's side ("K") and on the queen's side ("Q").
HomeRank(color) == IF color = WHITE THEN 7 ELSE 0
CastlingRight(b, color, side) ==
    IF color = WHITE
    THEN (IF side = "K" THEN b.castling_rights.K ELSE b.castling_rights.Q)
    ELSE (IF side = "K" THEN b.castling_rights.k ELSE b.castling_rights.q)
RookFile(side) == IF side = "K" THEN 7 ELSE 0
FilesBetween(side) == IF side = "K" THEN {5, 6} ELSE {1, 2, 3}
KingPath(side) == IF side = "K" THEN {5, 6} ELSE {3, 2}
KingTarget(color, side) == <<IF side = "K" THEN 6 ELSE 2, HomeRank(color)>>

\* The conditions of castling hold for color on the given side.
CastlingConditions(b, color, side) ==
    /\ CastlingRight(b, color, side)
    /\ get_piece(b.board, <<4, HomeRank(color)>>) = [piece_type |-> KING, color |-> color]
    /\ get_piece(b.board, <<RookFile(side), HomeRank(color)>>)
          = [piece_type |-> ROOK, color |-> color]
    /\ \A file \in FilesBetween(side) : empty(get_piece(b.board, <<file, HomeRank(color)>>))
    /\ ~is_check(b, color)
    /\ \A file \in KingPath(side) :
          ~SquareAttacked(b, <<file, HomeRank(color)>>, Opposite(color))

\* generate_legal_moves returns the castling move of color on the given side.
CastlingGenerated(b, color, side) ==
    \E move \in Range(generate_legal_moves(b, color)) :
        /\ move.is_castling
        /\ move.piece_type = KING
        /\ move.to_square = KingTarget(color, side)

\* C19: in every position of a game, for the side to move and each side of
\* the board, generate_legal_moves returns the castling move exactly when
\* king and rook stand on their original squares with the right still set,
\* the squares between them are empty, the king is not in check and the
\* squares it crosses and lands on are not attacked.
C19_CastlingGeneratedExactlyWhenAllowed ==
    \A side \in {"K", "Q"} :
        CastlingGenerated(cb, cb.current_player, side)
          <=> CastlingConditions(cb, cb.current_player, side)

\* The far rank of a colour and the direction its pawns move in.
FarRank(color) == IF color = WHITE THEN 0 ELSE 7
Forward(color) == IF color = WHITE THEN -1 ELSE 1
PromotionPieces == {QUEEN, ROOK, BISHOP, KNIGHT}

\* The squares of the pawns of color that stand one step from the far rank.
PawnsBeforeFarRank(b, color) ==
    {square \in Idx \X Idx :
        /\ get_piece(b.board, square) = [piece_type |-> PAWN, color |-> color]
        /\ square[2] + Forward(color) = FarRank(color)}

\* The moves onto the far rank that the rules give the pawn on square: the
\* four promotions of the push when the square ahead is empty, and the four
\* promotions of each diagonal capture of an enemy piece.
PromotionMoves(b, square, color) ==
    {_create_move(square, <<file, FarRank(color)>>, PAWN, color, piece, FALSE, FALSE,
                  file # square[1]) :
        file \in {f \in Idx :
                    LET target == get_piece(b.board, <<f, FarRank(color)>>)
                    IN  \/ f = square[1] /\ empty(target)
                        \/ Abs(f - square[1]) = 1 /\ ~empty(target)
                             /\ target.color = Opposite(color)},
        piece \in PromotionPieces}

\* The moves generate_legal_moves returns from square onto the far rank.
GeneratedOntoFarRank(b, square, color) ==
    {move \in Range(generate_legal_moves(b, color)) :
        move.from_square = square /\ move.to_square[2] = FarRank(color)}

\* C20: in every position of a game, for every pawn of the side to move one
\* step from the far rank, the moves the generator returns from its square
\* onto the far rank are exactly the promotion moves of the rules (four for
\* the push iff the square ahead is empty, four for each diagonal capture of
\* an enemy piece) that the generator's own filter _is_legal_move lets
\* through; so none is without a promotion piece and none goes straight
\* ahead onto an occupied square.
C20_PromotionMovesExact ==
    \A square \in PawnsBeforeFarRank(cb, cb.current_player) :
        GeneratedOntoFarRank(cb, square, cb.current_player)
          = {move \in PromotionMoves(cb, square, cb.current_player) :
                _is_legal_move(cb, move)}

\* The 20 moves of White in the starting position in the order of the scan
\* (rank 0 to 7, file 0 to 7 within a rank): for each pawn a2..h2 its single
\* and its double push, then the moves of the knight b1 and of the knight g1
\* in the order of knight_moves.
StartMoves ==
    [i \in 1..20 |->
        IF i <= 16
        THEN Move(<<(i - 1) \div 2, 6>>, <<(i - 1) \div 2, IF i % 2 = 1 THEN 5 ELSE 4>>,
                  PAWN, WHITE, NONE, FALSE, FALSE, FALSE)
        ELSE Move(<<IF i <= 18 THEN 1 ELSE 6, 7>>,
                  << <<0, 5>>, <<2, 5>>, <<5, 5>>, <<7, 5>> >>[i - 16],
                  KNIGHT, WHITE, NONE, FALSE, FALSE, FALSE)]

\* C21: in the standard starting position generate_legal_moves(White)
\* returns exactly 20 moves, the single and the double push of each of the
\* 8 pawns and 4 knight moves, in board-scan order, and make_move accepts
\* every one of them.
C21_StartPositionMoves ==
    pre = ChessBoard(FenStart)
      => /\ generate_legal_moves(pre, WHITE) = StartMoves
         /\ Len(generate_legal_moves(pre, WHITE)) = 20
         /\ \A move \in Range(generate_legal_moves(pre, WHITE)) : make_move(pre, move).ret

\* The last of the 20 moves, Ng1-h3, has been played from the starting
\* position.
C21_Witness ==
    /\ op = "make_move" /\ ret
    /\ pre = ChessBoard(FenStart)
    /\ arg = StartMoves[20]
    /\ get_piece(cb.board, <<7, 5>>) = [piece_type |-> KNIGHT, color |-> WHITE]

(***************************************************************************)
(* Claims about the values _minimax computes, checked under SpecSearch.    *)
(***************************************************************************)
\* make_move accepts the move in position b and the opponent is checkmated
\* in the position it leads to.
MatesOpponent(b, move) ==
    /\ make_move(b, move).ret
    /\ Checkmated(make_move(b, move).b, Opposite(b.current_player))

\* C22: _minimax scores each child from the point of view of the node's
\* side to move, so the (move, score) of a node at depth d >= 1 is the
\* minimax value and a move attaining it; in particular, when the side to
\* move at the root has a move that checkmates the opponent, a search that
\* ran to its end returns a checkmating move with the best possible score.
C22_MateIsBestForMover ==
    (/\ SearchReturned /\ ~srch.expired
     /\ \E move \in Range(generate_legal_moves(pre, pre.current_player)) :
            MatesOpponent(pre, move))
      => /\ srch.best_move # NoMove
         /\ MatesOpponent(pre, srch.best_move)
         /\ srch.best_score = PosInf

\* color has no legal move in position b: make_move accepts none of the
\* moves the generator returns, and the board's own scan finds none.
NoLegalMove(b, color) ==
    /\ ~has_legal_move(b, color)
    /\ \A move \in Range(generate_legal_moves(b, color)) :
           ~make_move([b EXCEPT !.current_player = color], move).ret

\* The step is a return of the call of _minimax on top of the stack (a
\* TimeoutError ends the search instead).
MinimaxReturns ==
    /\ stack # <<>>
    /\ Top.fn = "_minimax"
    /\ stack' = Pop
    /\ srch'.pc = srch.pc

\* The terminal score of a node whose side to move, color, has no legal
\* move: the mate score signed by whose turn it is, or 0 for stalemate.
TerminalScore(b, color) ==
    IF is_check(b, color)
    THEN (IF color = b.current_player THEN NegInf ELSE PosInf)
    ELSE Zero

\* C23: when a call of _minimax with remaining depth >= 1 stands on a
\* position whose side to move has no legal move, it returns no move
\* together with 0 if that side is not in check (stalemate) and with the
\* mate score if it is (checkmate).
C23_TerminalNodeScore ==
    [][(/\ MinimaxReturns
        /\ Top.depth >= 1
        /\ NoLegalMove(cb, Top.color))
          => srch'.rv = Result(NoMove, TerminalScore(cb, Top.color))]_vars

(***************************************************************************)
(* Claims about the table of the search, checked under SpecSearch.         *)
(***************************************************************************)
\* _quiescence_search (minimax.py 186-233) as a function of its arguments:
\* the value it returns when the time limit does not expire.
RECURSIVE _quiescence_search(_, _, _, _)
RECURSIVE QuiescenceFrom(_, _, _, _, _, _)
_quiescence_search(b, alpha, beta, color) ==
    LET static_eval == evaluate(b, color)
    IN  IF Le(beta, static_eval)
        THEN beta
        ELSE QuiescenceFrom(b, ScoreMax(alpha, static_eval), beta, color,
                            _generate_capture_moves(b, color), 1)

\* The loop of _quiescence_search from the k-th capture on.
QuiescenceFrom(b, alpha, beta, color, moves, k) ==
    LET i == NextAccepted(b, moves, k)
    IN  IF i = 0
        THEN alpha
        ELSE LET score == Neg(_quiescence_search(make_move(b, moves[i]).b, Neg(beta),
                                                 Neg(alpha), Opposite(color)))
             IN  IF Le(beta, score)
                 THEN beta
                 ELSE QuiescenceFrom(b, ScoreMax(alpha, score), beta, color, moves, i + 1)

\* _minimax (minimax.py 92-184) as a function of its arguments, without a
\* table: the (move, score) it returns when no lookup hits and the time
\* limit does not expire.
RECURSIVE _minimax(_, _, _, _, _)
RECURSIVE MinimaxFrom(_, _, _, _, _, _, _, _, _)
_minimax(b, depth, alpha, beta, color) ==
    LET moves == generate_legal_moves(b, color)
        maximizing == color = b.current_player
    IN  IF depth = 0
        THEN Result(NoMove, _quiescence_search(b, alpha, beta, color))
        ELSE IF moves = <<>>
        THEN Result(NoMove, IF is_check(b, color)
                            THEN (IF maximizing THEN NegInf ELSE PosInf)
                            ELSE Zero)
        ELSE MinimaxFrom(b, depth, alpha, beta, color, _order_moves(MinimaxEngine, moves, b),
                         1, NoMove, IF maximizing THEN NegInf ELSE PosInf)

\* The loop of _minimax from the k-th move on.
MinimaxFrom(b, depth, alpha, beta, color, moves, k, best_move, best_score) ==
    LET i == NextAccepted(b, moves, k)
    IN  IF i = 0
        THEN Result(best_move, best_score)
        ELSE LET score == _minimax(make_move(b, moves[i]).b, depth - 1, alpha, beta,
                                   Opposite(color)).score
                 maximizing == color = b.current_player
                 better == IF maximizing THEN Lt(best_score, score)
                           ELSE Lt(score, best_score)
                 new_alpha == IF maximizing /\ better THEN ScoreMax(alpha, score) ELSE alpha
                 new_beta == IF ~maximizing /\ better THEN ScoreMin(beta, score) ELSE beta
                 new_move == IF better THEN moves[i] ELSE best_move
                 new_score == IF better THEN score ELSE best_score
             IN  IF Le(new_beta, new_alpha)
                 THEN Result(new_move, new_score)
                 ELSE MinimaxFrom(b, depth, new_alpha, new_beta, color, moves, i + 1,
                                  new_move, new_score)

\* The step is a call of _minimax that finds its position in the table with
\* sufficient depth and returns the entry (minimax.py 127-130).
TableHit ==
    /\ Running("_minimax", "enter")
    /\ MinimaxReturns
    /\ eng'.search_stats.transposition_hits = eng.search_stats.transposition_hits + 1

\* C24: a hit of the table in _minimax is sound.  The entry returned has
\* depth >= the remaining depth and is stored as Exact, and the
\* (move, score) returned on the hit is what a search of that position with
\* the full window at the entry's depth returns.
C24_TableHitIsSound ==
    [][TableHit =>
         LET entry == lru_get(eng.transposition_table, hash_position(cb))
         IN  /\ entry.depth >= Top.depth
             /\ entry.node_type = "EXACT"
             /\ srch'.rv = _minimax(cb, entry.depth, NegInf, PosInf, Top.color)]_vars

(***************************************************************************)
(* Claims about the replacement policy of the table, checked under SpecTT. *)
(***************************************************************************)
\* The step is a call of one of the three store methods.
StoreCalled == op' \in {"store_exact", "store_lower_bound", "store_upper_bound"}

\* C25: store on an occupied slot replaces the entry when the new depth is
\* greater than or equal to the existing depth; a strictly shallower new
\* entry replaces a deeper one only when the existing entry is more than 4
\* ages older than the table's age; otherwise the slot is left unchanged.
C25_ReplacementPolicy ==
    [][StoreCalled =>
         LET index == arg'.hash_key % tt.size
             old == tt.table[index]
             replaced == tt'.table[index].hash_key = arg'.hash_key
                           /\ tt'.table[index].move = arg'.move
                           /\ tt'.table[index].score = arg'.score
                           /\ tt'.table[index].depth = arg'.depth
                           /\ tt'.table[index].age = tt.age
         IN  old # NoEntry =>
                IF arg'.depth >= old.depth \/ tt.age - old.age > 4
                THEN replaced
                ELSE tt'.table[index] = old]_vars

(***************************************************************************)
(* Claims about cutoffs and move ordering, checked under SpecSearch.       *)
(***************************************************************************)
\* The step is the one in which _minimax, having updated alpha or beta with
\* the score of a move, finds beta <= alpha and breaks out of its loop
\* (minimax.py 173-176).
CutoffStep ==
    /\ Running("_minimax", "after")
    /\ Len(stack') = Len(stack)
    /\ Le(stack'[Len(stack)].beta, stack'[Len(stack)].alpha)

\* The step is the return of a call of _minimax whose loop ended in a
\* cutoff; the cutting move is the node's best move.
ReturnAfterCutoff ==
    /\ Running("_minimax", "loop")
    /\ Le(Top.beta, Top.alpha)
    /\ MinimaxReturns

\* C26: whenever _minimax breaks out of its loop on beta <= alpha, the
\* cutoff counter goes up by one, and when that node returns the cutting
\* move is in the killer-move table and the history score of its
\* (from, to) pair has been increased by depth squared.
C26_CutoffBookkeeping ==
    [][/\ CutoffStep => eng'.search_stats.cutoffs = eng.search_stats.cutoffs + 1
       /\ ReturnAfterCutoff =>
             /\ \E color \in Color : Top.best_move \in Range(eng'.killer_moves[color])
             /\ history_get(eng'.history_table,
                            <<Top.best_move.from_square, Top.best_move.to_square>>)
                   >= Top.depth * Top.depth]_vars

\* Value of the captured piece minus value of the capturing piece, for a
\* capture in position b.
MvvLva(b, move) ==
    _get_piece_value(get_piece(b.board, move.to_square).piece_type)
      - _get_piece_value(move.piece_type)

\* The list is sorted as stated: no non-promoting capture stands before a
\* promotion, and of two non-promoting captures the one standing first has
\* at least the value difference of the other.
SortedAsStated(b, moves) ==
    \A i \in 1..Len(moves), j \in 1..Len(moves) :
        (i < j /\ moves[i].is_capture /\ moves[i].promotion = NONE)
          => /\ moves[j].promotion = NONE
             /\ moves[j].is_capture => MvvLva(b, moves[i]) >= MvvLva(b, moves[j])

\* The two lists hold the same moves the same number of times.
SameMoves(moves, input) ==
    /\ Len(moves) = Len(input)
    /\ \A move \in Range(input) :
          Cardinality({i \in 1..Len(moves) : moves[i] = move})
            = Cardinality({i \in 1..Len(input) : input[i] = move})

\* C27: the list _minimax loops over is the ordering of the generated moves:
\* a permutation of them, sorted by the stated priority, highest first, with
\* every promotion before every non-promoting capture and the captures
\* ranked among themselves by captured value minus capturing value.
C27_MoveOrdering ==
    (Running("_minimax", "loop") /\ Top.next = 1)
      => /\ SameMoves(Top.moves, generate_legal_moves(cb, Top.color))
         /\ SortedAsStated(cb, Top.moves)

(***************************************************************************)
(* QuiescenceSearch (quiescence.py), the stand-alone quiescence search.    *)
(* In this specification cb is the board passed to search, eng is the      *)
(* QuiescenceSearch object, stack holds one frame per active call of       *)
(* search and srch the position of the caller.  The object creates its     *)
(* MoveGenerator in the first call (lines 59-60) and keeps it: the         *)
(* generator reads the board object it was created for, which is either    *)
(* the board under search (alias) or an earlier board the caller has put   *)
(* aside, as it was left.                                                  *)
(***************************************************************************)
\* QuiescenceSearch(max_depth=3), as tests/test_search.py constructs it.
MaxQuiescenceDepth == 3
\* The calls of search a caller makes on one object.
MaxQuiescenceCalls == 2

FenPawnCapture ==
    <<"4", "k", "3", "/", "8", "/", "8", "/", "3", "p", "4", "/", "4", "P", "3", "/", "8", "/", "8", "/", "4", "K", "3", " ", "w", " ", "-", " ", "-", " ", "0", " ", "1">>

FenLonePawn ==
    <<"4", "k", "3", "/", "8", "/", "8", "/", "8", "/", "4", "P", "3", "/", "8", "/", "8", "/", "4", "K", "3", " ", "w", " ", "-", " ", "-", " ", "0", " ", "1">>

FenPawnExchange ==
    <<"4", "k", "3", "/", "8", "/", "2", "p", "1", "p", "3", "/", "3", "p", "4", "/", "2", "P", "1", "P", "3", "/", "8", "/", "8", "/", "4", "K", "3", " ", "w", " ", "-", " ", "-", " ", "0", " ", "1">>

QuiescenceFens == {FenPawnCapture, FenLonePawn, FenMatingCapture, FenPawnExchange}

\* The alpha-beta windows of the callers: the full window, and the one of
\* tests/test_search.py.
QuiescenceWindows == {<<NegInf, PosInf>>, <<Rat(-1, 1), Rat(1, 1)>>}

QuiescenceSearch ==
    [max_depth |-> MaxQuiescenceDepth,
     nodes_searched |-> 0,
     move_generator |-> [bound |-> FALSE, alias |-> FALSE, board |-> {}]]

\* QuiescenceSearch._get_piece_value (lines 128-138) holds the table of
\* MinimaxEngine._get_piece_value.
_static_exchange_evaluation(move) ==
    LET attacker_value == _get_piece_value(move.piece_type)
        victim_value == _get_piece_value(move.piece_type)
    IN  victim_value - attacker_value

\* sorted(moves, key=see_value, reverse=True), stable.
RECURSIVE SortedBySee(_, _)
SortedBySee(moves, values) ==
    IF values = {} THEN <<>>
    ELSE LET top == SetMax(values)
         IN  SelectInOrder(LAMBDA m : _static_exchange_evaluation(m) = top, moves)
             \o SortedBySee(moves, values \ {top})

_order_captures_by_see(moves) ==
    SortedBySee(moves, {_static_exchange_evaluation(moves[i]) : i \in 1..Len(moves)})

_static_evaluation(b, color) ==
    Rat(SumBoard(LAMBDA file, rank :
            LET square == b.board[rank][file]
            IN  IF square.piece_type = NONE THEN 0
                ELSE IF square.color = color THEN _get_piece_value(square.piece_type)
                ELSE -_get_piece_value(square.piece_type)), 1)

\* The board self.move_generator reads, once it is bound.
GeneratorBoard == IF eng.move_generator.alias THEN cb ELSE eng.move_generator.board

\* The captures search loops over (lines 62-65, 88-91).
CaptureMoves(color) ==
    LET board == IF eng.move_generator.bound THEN GeneratorBoard ELSE cb
    IN  _order_captures_by_see(
            SelectInOrder(LAMBDA move : move.is_capture, generate_legal_moves(board, color)))

QuiescenceIdle == [pc |-> "idle", calls |-> 0, rv |-> Zero]

InitQuiescence ==
    /\ cb \in {ChessBoard(fen) : fen \in QuiescenceFens}
    /\ op = "init"
    /\ arg = NoMove
    /\ ret = TRUE
    /\ pre = cb
    /\ applied = 0
    /\ eng = QuiescenceSearch
    /\ stack = <<>>
    /\ srch = QuiescenceIdle
    /\ tt = TableIdle

\* return value of search: the frame is popped, the caller finds it in rv.
QuiescenceReturn(value) ==
    /\ stack' = Pop
    /\ srch' = [srch EXCEPT !.rv = value,
                            !.pc = IF Len(stack) = 1 THEN "done" ELSE @]

\* The caller: quiescence.search(board, alpha, beta, color) on the board at
\* hand.
QuiescenceCall(window, color) ==
    /\ stack = <<>> /\ srch.calls < MaxQuiescenceCalls
    /\ stack' = <<Frame("search", 0, window[1], window[2], color)>>
    /\ srch' = [srch EXCEPT !.pc = "search", !.calls = @ + 1]
    /\ UNCHANGED <<cb, op, arg, ret, pre, applied, eng, tt>>

\* The caller, between two searches: board = ChessBoard(fen), another
\* object; the generator of the first search keeps the board it was made for.
NewBoard(fen) ==
    /\ srch.pc = "done" /\ srch.calls < MaxQuiescenceCalls
    /\ eng.move_generator.alias
    /\ cb' = ChessBoard(fen)
    /\ eng' = [eng EXCEPT !.move_generator = [bound |-> TRUE, alias |-> FALSE, board |-> cb]]
    /\ srch' = [srch EXCEPT !.pc = "idle"]
    /\ UNCHANGED <<op, arg, ret, pre, applied, stack, tt>>

\* search, lines 44-65: from entry to the first capture.
QuiescenceSearchEnter ==
    /\ Running("search", "enter")
    /\ LET frame == Top
           static_eval == _static_evaluation(cb, frame.color)
       IN  IF frame.depth >= eng.max_depth
           THEN QuiescenceReturn(static_eval) /\ eng' = eng
           ELSE /\ IF Le(frame.beta, static_eval)
                   THEN /\ QuiescenceReturn(frame.beta)
                        /\ eng' = [eng EXCEPT !.nodes_searched = @ + 1]
                   ELSE /\ srch' = srch
                        /\ eng' = [eng EXCEPT
                              !.nodes_searched = @ + 1,
                              !.move_generator =
                                  IF @.bound THEN @
                                  ELSE [bound |-> TRUE, alias |-> TRUE, board |-> {}]]
                        /\ stack' = SetTop([frame EXCEPT
                              !.pc = "loop",
                              !.alpha = ScoreMax(frame.alpha, static_eval),
                              !.moves = CaptureMoves(frame.color)])
    /\ UNCHANGED <<cb, op, arg, ret, pre, applied, tt>>

\* search, lines 67-75 and 86: the next accepted capture is made and
\* searched, or the loop ends and alpha is returned.
QuiescenceSearchLoop ==
    /\ Running("search", "loop")
    /\ LET frame == Top
           k == NextAccepted(cb, frame.moves, frame.next)
       IN  IF k = 0
           THEN QuiescenceReturn(frame.alpha) /\ cb' = cb
           ELSE /\ cb' = make_move(cb, frame.moves[k]).b
                /\ stack' = Append(
                       SetTop([frame EXCEPT !.pc = "after", !.move = frame.moves[k],
                                            !.next = k + 1]),
                       Frame("search", frame.depth + 1, Neg(frame.beta), Neg(frame.alpha),
                             Opposite(frame.color)))
                /\ srch' = srch
    /\ UNCHANGED <<op, arg, ret, pre, applied, eng, tt>>

\* search, lines 78-84: the recursive call has returned.
QuiescenceSearchAfter ==
    /\ Running("search", "after")
    /\ LET frame == Top
           score == Neg(srch.rv)
       IN  /\ cb' = undo_move(cb).b
           /\ IF Le(frame.beta, score)
              THEN QuiescenceReturn(frame.beta)
              ELSE /\ srch' = srch
                   /\ stack' = SetTop([frame EXCEPT
                          !.pc = "loop", !.move = NoMove,
                          !.alpha = ScoreMax(frame.alpha, score)])
    /\ UNCHANGED <<op, arg, ret, pre, applied, eng, tt>>

NextQuiescence ==
    \/ \E window \in QuiescenceWindows, color \in Color : QuiescenceCall(window, color)
    \/ \E fen \in QuiescenceFens : NewBoard(fen)
    \/ QuiescenceSearchEnter
    \/ QuiescenceSearchLoop
    \/ QuiescenceSearchAfter

SpecQuiescence == InitQuiescence /\ [][NextQuiescence]_vars

(***************************************************************************)
(* C28: quiescence search applies captures only, and every capture it      *)
(* applies removes a piece.                                                *)
(***************************************************************************)
\* The number of pieces on the board.
PieceCount(b) ==
    Cardinality({sq \in Idx \X Idx : b.board[sq[2]][sq[1]].piece_type # NONE})

\* The step of _quiescence_search that makes a move and recurses.
QuiescenceApplies ==
    /\ Running("_quiescence_search", "loop")
    /\ NextAccepted(cb, Top.moves, Top.next) # 0

\* The frames of _quiescence_search on the call stack.
QuiescenceFrames == {i \in 1..Len(stack) : stack[i].fn = "_quiescence_search"}

\* Every move applied by _quiescence_search of MinimaxEngine is a capture of an
\* enemy piece standing on the target square, the number of pieces on the
\* board drops by exactly one with it, and so the recursion is never deeper
\* than the number of pieces that can still be captured: it ends without
\* the time limit.
EngineQuiescenceCapturesOnly ==
    /\ [][QuiescenceApplies =>
             LET move == Top.moves[NextAccepted(cb, Top.moves, Top.next)]
                 target == get_piece(cb.board, move.to_square)
             IN  /\ move.is_capture
                 /\ target.piece_type # NONE
                 /\ target.color = Opposite(Top.color)
                 /\ PieceCount(cb') = PieceCount(cb) - 1]_vars
    /\ [](Cardinality(QuiescenceFrames) + PieceCount(cb) <= 33)

\* A quiescence search two captures deep.
EngineQuiescenceTwoDeep ==
    /\ Cardinality(QuiescenceFrames) >= 3
    /\ Running("_quiescence_search", "enter")
    /\ PieceCount(cb) < PieceCount(pre)

\* The step of QuiescenceSearch.search that makes a move and recurses.
QuiescenceSearchApplies ==
    /\ Running("search", "loop")
    /\ NextAccepted(cb, Top.moves, Top.next) # 0

\* C28: quiescence search applies only moves that capture a piece: with
\* every move it makes, a piece of the other side leaves the board and the
\* number of pieces drops by one; the recursion is no deeper than the depth
\* limit.
C28_QuiescenceCapturesOnly ==
    /\ [][QuiescenceSearchApplies =>
             LET move == Top.moves[NextAccepted(cb, Top.moves, Top.next)]
                 target == get_piece(cb.board, move.to_square)
             IN  /\ move.is_capture
                 /\ target.piece_type # NONE
                 /\ target.color = Opposite(Top.color)
                 /\ PieceCount(cb') = PieceCount(cb) - 1]_vars
    /\ [](Len(stack) <= MaxQuiescenceDepth + 1)

(***************************************************************************)
(* EvaluationEngine._evaluate_pawn_structure on positions with one, two    *)
(* and three pawns on a file.  The caller plays generated moves and asks   *)
(* for the pawn-structure term of either colour; op, arg and ret record    *)
(* the call, its colour and the value returned.                            *)
(***************************************************************************)
\* 4k3/8/8/8/P7/P7/8/4K3 w - - 0 1
FenDoubledPawns ==
    <<"4", "k", "3", "/", "8", "/", "8", "/", "8", "/", "P", "7", "/", "P", "7", "/", "8", "/", "4", "K", "3", " ", "w", " ", "-", " ", "-", " ", "0", " ", "1">>

\* 4k3/2p5/2p5/2p5/8/8/8/4K3 b - - 0 1
FenTripledPawns ==
    <<"4", "k", "3", "/", "2", "p", "5", "/", "2", "p", "5", "/", "2", "p", "5", "/", "8", "/", "8", "/", "8", "/", "4", "K", "3", " ", "b", " ", "-", " ", "-", " ", "0", " ", "1">>

EvalFens == {FenDoubledPawns, FenTripledPawns, FenPawnExchange, FenDoublePush}

InitEval ==
    /\ cb \in {ChessBoard(fen) : fen \in EvalFens}
    /\ op = "init"
    /\ arg = NoMove
    /\ ret = TRUE
    /\ pre = cb
    /\ applied = 0
    /\ eng = EngineIdle
    /\ stack = <<>>
    /\ srch = SearchIdle
    /\ tt = TableIdle

EvaluatePawnStructure(color) ==
    /\ op' = "_evaluate_pawn_structure"
    /\ arg' = color
    /\ ret' = _evaluate_pawn_structure(cb, color)
    /\ UNCHANGED <<cb, pre, applied, eng, stack, srch, tt>>

NextEval ==
    \/ \E move \in Range(generate_legal_moves(cb, cb.current_player)) : PlayMove(move)
    \/ \E color \in Color : EvaluatePawnStructure(color)

SpecEval == InitEval /\ [][NextEval]_vars

\* The doubled-pawn penalty the pawns of one file add up to: the loop over
\* own_pawns charges every pawn of the file (lines 334-339).
DoubledPenalty(b, color, file) ==
    SumSeq(LAMBDA rank : IF <<file, rank>> \in PawnsOf(b, color)
                         THEN DoubledCharge(PawnsOf(b, color), file) ELSE 0, Range8)

\* C29: for each file holding k >= 1 pawns of the evaluated colour, the
\* doubled-pawn penalty contributed by that file is 10 * (k - 1).
C29_DoubledPawnPenalty ==
    op = "_evaluate_pawn_structure" =>
        \A file \in Idx :
            LET k == Cardinality({p \in PawnsOf(cb, arg) : p[1] = file})
            IN  k >= 1 => DoubledPenalty(cb, arg, file) = 10 * (k - 1)

(***************************************************************************)
(* C30: castling rights under make_move and undo_move, checked under Spec. *)
(***************************************************************************)
\* The castling rights of a colour, and the right that belongs to a corner.
RightsOf(color) == IF color = WHITE THEN {"K", "Q"} ELSE {"k", "q"}
CornerRight(square) ==
    CASE square = <<0, 0>> -> "q"
      [] square = <<7, 0>> -> "k"
      [] square = <<0, 7>> -> "Q"
      [] square = <<7, 7>> -> "K"
      [] OTHER -> "-"

\* No call of make_move turns a right from false to true.
RightsShrink ==
    op' = "make_move" =>
        \A right \in DOMAIN cb.castling_rights :
            cb'.castling_rights[right] => cb.castling_rights[right]

\* An accepted move of a king clears both rights of its colour; an accepted
\* move of a rook from its home corner, or onto a corner that holds a piece
\* of the other side, clears the right of that corner.
RightsCleared ==
    (op' = "make_move" /\ ret') =>
        LET move == arg'
            piece == get_piece(cb.board, move.from_square)
            target == get_piece(cb.board, move.to_square)
        IN  /\ piece.piece_type = KING =>
                  \A right \in RightsOf(piece.color) : ~cb'.castling_rights[right]
            /\ (piece.piece_type = ROOK /\ CornerRight(move.from_square) \in RightsOf(piece.color))
                  => ~cb'.castling_rights[CornerRight(move.from_square)]
            /\ (target.piece_type # NONE /\ target.color # piece.color
                  /\ CornerRight(move.to_square) # "-")
                  => ~cb'.castling_rights[CornerRight(move.to_square)]

\* undo_move of the one accepted move brings the rights back to the value
\* they had before it, the value of the starting position.
RightsRestored ==
    (op' = "undo_move" /\ ret' /\ applied = 1 /\ Len(cb.move_history) = 1) =>
        cb'.castling_rights = StartPosition.castling_rights

\* C30: castling rights only shrink under make_move; a king move clears the
\* two rights of its colour, a rook leaving its home corner or a capture
\* landing on a corner clears the right of that corner, and undo_move
\* brings the rights back to exactly the value they had before the undone
\* move.
C30_CastlingRightsShrink ==
    [][RightsShrink /\ RightsCleared /\ RightsRestored]_vars


============================================================================
